---- MODULE Spec2Model ----
(***************************************************************************)
(* Model of the record reconciliation engine of tg-export                  *)
(* (src/data_providers.py) and of the callers that write the store         *)
(* (src/tg_export.py, src/message_loader.py, src/common_groups_loader.py). *)
(*                                                                         *)
(* A Python string is a sequence of one-character strings.  A Python       *)
(* value held by a record is a triple [t, s, n]: a str (t = "str", text    *)
(* s), an int (t = "int", number n) or pandas' NaN (t = "nan").            *)
(***************************************************************************)
EXTENDS Integers, Sequences, FiniteSets, TLC

\* ------------------------------------------------------------------ bounds
\* the clock runs from 0 to MaxTime seconds
MaxTime == 1
\* merges applied in a row to one stored record
MaxMerges == 2
\* applications of sync_data in a row, each to the result of the one before
MaxSyncs == 2
\* minutes the clock of the store advances, handlers run on the store, and
\* the greatest row index a loader is given
MaxMinutes == 1
MaxPasses == 1
MaxRowIndex == 1
\* ProviderManager.sync_data calls in a row on the providers configured
MaxManagerSyncs == 1
\* the most users among the contacts, and the most dialogs
MaxCollected == 2
\* the largest retention count cleanup_old_backups is called with
MaxKeepCount == 3
\* calls of collection routines in a behaviour
MaxCalls == 2
\* the attempts after which the messaging API stops answering with FloodWait
MaxAttempts == 3
\* the longest wait, in seconds, a FloodWait asks for
MaxFloodSeconds == 2

\* ------------------------------------------------------- Python values
StrV(s) == [t |-> "str", s |-> s, n |-> 0]
IntV(k) == [t |-> "int", s |-> <<>>, n |-> k]
\* a float that is a whole number, as read_csv gives for a column of whole
\* numbers and empty cells
FloatV(k) == [t |-> "float", s |-> <<>>, n |-> k]
NaN == [t |-> "nan", s |-> <<>>, n |-> 0]
None == [t |-> "none", s |-> <<>>, n |-> 0]
Empty == StrV(<<>>)
Yes == StrV(<<"Y", "e", "s">>)
No == StrV(<<"N", "o">>)

DigitChars == <<"0", "1", "2", "3", "4", "5", "6", "7", "8", "9">>
Digits == {DigitChars[i] : i \in 1..10}
IsDigit(c) == c \in Digits
IsSpace(c) == c \in {" ", "\t", "\n"}

\* bool(v): the truth value Python gives v in `new_val if new_val else ...`
Truthy(v) ==
    CASE v.t = "str" -> v.s # <<>>
      [] v.t = "int" -> v.n # 0
      [] v.t = "float" -> v.n # 0
      [] v.t = "none" -> FALSE
      [] OTHER -> TRUE

RECURSIVE Decimal(_)
Decimal(k) == IF k < 10 THEN <<DigitChars[k + 1]>>
              ELSE Decimal(k \div 10) \o <<DigitChars[(k % 10) + 1]>>

\* str(v)
PyStr(v) ==
    CASE v.t = "str" -> v.s
      [] v.t = "int" -> Decimal(v.n)
      [] v.t = "float" -> Decimal(v.n) \o <<".", "0">>
      [] v.t = "none" -> <<"N", "o", "n", "e">>
      [] OTHER -> <<"n", "a", "n">>

RECURSIVE LStrip(_)
LStrip(s) == IF s # <<>> /\ IsSpace(Head(s)) THEN LStrip(Tail(s)) ELSE s

RECURSIVE RStrip(_)
RStrip(s) == IF s # <<>> /\ IsSpace(s[Len(s)])
             THEN RStrip(SubSeq(s, 1, Len(s) - 1)) ELSE s

\* str.strip()
Strip(s) == RStrip(LStrip(s))

\* ''.join(filter(str.isdigit, s))
OnlyDigits(s) == SelectSeq(s, IsDigit)

\* does r'(\d{4}-\d{2}-\d{2} )\b0(\d):' match s at position i
HourZeroAt(s, i) ==
    /\ i + 13 <= Len(s)
    /\ \A k \in {0, 1, 2, 3, 5, 6, 8, 9} : IsDigit(s[i + k])
    /\ s[i + 4] = "-"
    /\ s[i + 7] = "-"
    /\ s[i + 10] = " "
    /\ s[i + 11] = "0"
    /\ IsDigit(s[i + 12])
    /\ s[i + 13] = ":"

RECURSIVE ReSubFrom(_, _)
ReSubFrom(s, i) ==
    IF i > Len(s) THEN <<>>
    ELSE IF HourZeroAt(s, i)
         THEN SubSeq(s, i, i + 10) \o <<s[i + 12], ":">> \o ReSubFrom(s, i + 14)
         ELSE <<s[i]>> \o ReSubFrom(s, i + 1)

\* a detector that compares the dates as they are written
NormalizeDateNot(s) == s

\* re.sub(r'(\d{4}-\d{2}-\d{2} )\b0(\d):', r'\1\2:', s)
NormalizeDate(s) == ReSubFrom(s, 1)

\* the two digits strftime gives a field of value k
TwoDigits(k) == <<DigitChars[(k \div 10) + 1], DigitChars[(k % 10) + 1]>>

\* datetime.now().strftime("%Y-%m-%d %H:%M:%S") at second t of the clock
Stamp(t) ==
    StrV(<<"2", "0", "2", "5", "-", "0", "1", "-", "0", "1", " ", "1", "2", ":">>
         \o TwoDigits(t \div 60) \o <<":">> \o TwoDigits(t % 60))

\* the text written to the store for v: str(v), and nothing for NaN
CellText(v) == IF v.t = "nan" THEN <<>> ELSE PyStr(v)

\* ---------------------------------------------------------------- records
\* A record is a function from the field names it holds to Python values.
StandardColumns ==
    {"id", "username", "first_name", "last_name", "title", "phone", "is_contact",
     "is_bot", "has_chat", "unread_count", "last_message_date", "last_updated"}

\* record.get(field, '')
Get(record, field) == IF field \in DOMAIN record THEN record[field] ELSE Empty

\* str(record.get(field, '')).strip()
Cell(record, field) == Strip(PyStr(Get(record, field)))

\* existing_record.get('id', new_record.get('id', 'unknown'))
RecordId(existing, new) ==
    IF "id" \in DOMAIN existing THEN existing["id"]
    ELSE IF "id" \in DOMAIN new THEN new["id"]
    ELSE StrV(<<"u", "n", "k", "n", "o", "w", "n">>)

\* a detector that never finds the id unknown
IdUnknownNever(existing, new) == FALSE

\* _has_data_changed raises ValueError("ID is unknown")
IdUnknown(existing, new) ==
    RecordId(existing, new) = StrV(<<"u", "n", "k", "n", "o", "w", "n">>)

ComparableFields == StandardColumns \ {"id", "last_updated"}

\* a phone branch that compares the values as they are
PhoneChangedAsWritten(existing_val, new_val) ==
    new_val # <<>> /\ existing_val # new_val

\* the phone branch: both values reduced to their digits, then compared as any
\* other standard field
PhoneChanged(existing_val, new_val) ==
    /\ OnlyDigits(new_val) # <<>>
    /\ OnlyDigits(existing_val) # OnlyDigits(new_val)

\* unread_count and last_message_date: the effective value is compared
EffectiveChanged(field, existing_val, new_val) ==
    LET effective_old == existing_val
        effective_new == IF new_val # <<>> THEN new_val ELSE existing_val
    IN  IF /\ field = "last_message_date"
           /\ effective_old # <<>>
           /\ effective_new # <<>>
           /\ NormalizeDate(effective_old) = NormalizeDate(effective_new)
        THEN FALSE
        ELSE effective_old # effective_new

\* every other field: a non-empty new value that differs
RegularChanged(existing_val, new_val) ==
    new_val # <<>> /\ existing_val # new_val

\* a loop over comparable_fields that compares is_contact as any other field
StandardFieldChangedWithContact(field, existing, new) ==
    LET existing_val == Cell(existing, field)
        new_val == Cell(new, field)
    IN  IF field = "phone" THEN PhoneChanged(existing_val, new_val)
        ELSE IF field \in {"unread_count", "last_message_date"}
        THEN EffectiveChanged(field, existing_val, new_val)
        ELSE RegularChanged(existing_val, new_val)

\* one pass of the loop over comparable_fields
StandardFieldChanged(field, existing, new) ==
    LET existing_val == Cell(existing, field)
        new_val == Cell(new, field)
    IN  IF field = "phone" THEN PhoneChanged(existing_val, new_val)
        ELSE IF field \in {"unread_count", "last_message_date"}
        THEN EffectiveChanged(field, existing_val, new_val)
        ELSE IF field = "is_contact" THEN FALSE
        ELSE RegularChanged(existing_val, new_val)

\* the fields of the second loop: in either record, not id, last_updated or
\* a comparable field
AdditionalFields(existing, new) ==
    ((DOMAIN existing) \cup (DOMAIN new))
        \ ({"id", "last_updated"} \cup ComparableFields)

AdditionalFieldChanged(field, existing, new) ==
    IF field = "is_contact" THEN FALSE
    ELSE RegularChanged(Cell(existing, field), Cell(new, field))

\* a detector that finds no change in any two records
HasDataChangedNever(existing, new) == FALSE

\* _has_data_changed, for records of which one holds an id: both loops return
\* True at the first field that changed, False when none did
HasDataChanged(existing, new) ==
    \/ \E field \in ComparableFields : StandardFieldChanged(field, existing, new)
    \/ \E field \in AdditionalFields(existing, new) :
           AdditionalFieldChanged(field, existing, new)

\* a merge of the flags in which the new record alone decides
MergeFlagNewWins(existing_val, new_val) == IF new_val = Yes THEN Yes ELSE No

\* is_contact, has_chat: 'Yes' if either side says 'Yes', else 'No'
MergeFlag(existing_val, new_val) ==
    IF existing_val = Yes \/ new_val = Yes THEN Yes ELSE No

\* new_val if new_val else existing_val
PreferNew(existing_val, new_val) ==
    IF Truthy(new_val) THEN new_val ELSE existing_val

\* a merge of additional fields that always takes the new value
MergeAdditionalOverwrite(existing, key, new_val) == new_val

\* a field outside standard_columns: the existing value stays when the new one
\* is empty and the existing record has the field
MergeAdditional(existing, key, new_val) ==
    IF Truthy(new_val) \/ key \notin DOMAIN existing THEN new_val
    ELSE existing[key]

\* one pass of the loop over new_record.items(), for key # 'last_updated'
MergeField(key, existing, new) ==
    LET existing_val == Get(existing, key)
        new_val == new[key]
    IN  IF key \in {"is_contact", "has_chat"} THEN MergeFlag(existing_val, new_val)
        ELSE IF key \in {"phone", "first_name", "last_name"}
        THEN PreferNew(existing_val, new_val)
        ELSE IF key \in {"unread_count", "last_message_date"}
        THEN PreferNew(existing_val, new_val)
        ELSE IF key \in StandardColumns THEN PreferNew(existing_val, new_val)
        ELSE MergeAdditional(existing, key, new_val)

\* a merge that stamps the record whether or not the data changed
StampAlways(existing, data_changed, t) == [last_updated |-> Stamp(t)]

\* the last_updated of the merged record: the current time when the data
\* changed, else whatever the copy of the existing record holds
StampIfChanged(existing, data_changed, t) ==
    IF data_changed THEN [last_updated |-> Stamp(t)]
    ELSE [k \in (DOMAIN existing) \cap {"last_updated"} |-> existing[k]]

\* a merge that takes the last_updated the new record carries
PreserveAdditionalColumnsNewStamp(existing, new, t) ==
    LET stamp == StampIfChanged(existing, HasDataChanged(existing, new), t)
        keys == (DOMAIN existing) \cup (DOMAIN new) \cup DOMAIN stamp
    IN  [key \in keys |->
            IF key = "last_updated" /\ key \in DOMAIN new THEN new[key]
            ELSE IF key = "last_updated" THEN stamp[key]
            ELSE IF key \in DOMAIN new THEN MergeField(key, existing, new)
            ELSE existing[key]]

\* preserve_additional_columns, for records of which one holds an id
PreserveAdditionalColumns(existing, new, t) ==
    LET stamp == StampIfChanged(existing, HasDataChanged(existing, new), t)
        keys == (DOMAIN existing) \cup (DOMAIN new \ {"last_updated"})
                    \cup DOMAIN stamp
    IN  [key \in keys |->
            IF key = "last_updated" THEN stamp[key]
            ELSE IF key \in DOMAIN new THEN MergeField(key, existing, new)
            ELSE existing[key]]

\* ------------------------------------------------------------------ tables
\* record[field] = value
SetField(record, field, value) ==
    [k \in (DOMAIN record) \cup {field} |-> IF k = field THEN value ELSE record[k]]

\* A DataFrame is a sequence of rows, each a record over the same columns.

\* pd.DataFrame(list of dicts): the columns are all the keys, and a key a
\* dict lacks is NaN in its row
ToFrame(records) ==
    LET columns == UNION {DOMAIN records[i] : i \in DOMAIN records}
    IN  [i \in DOMAIN records |->
            [k \in columns |-> IF k \in DOMAIN records[i] THEN records[i][k] ELSE NaN]]

\* DataFrame.empty
FrameEmpty(data) == Len(data) = 0

\* data['id'] = data['id'].astype(str)
IdAsStr(data) ==
    [i \in DOMAIN data |-> [data[i] EXCEPT !["id"] = StrV(PyStr(@))]]

\* data['last_updated'] = <current time>, on every row
StampRows(data, t) ==
    [i \in DOMAIN data |-> SetField(data[i], "last_updated", Stamp(t))]

\* the position of key user_id in the dict merged_records (kept as the sequence
\* of its values, in insertion order), 0 when it is no key
KeyIndex(merged_records, user_id) ==
    IF \E i \in DOMAIN merged_records : merged_records[i]["id"] = user_id
    THEN CHOOSE i \in DOMAIN merged_records : merged_records[i]["id"] = user_id
    ELSE 0

\* merged_records[record['id']] = record
SetKey(merged_records, record) ==
    LET i == KeyIndex(merged_records, record["id"])
    IN  IF i = 0 THEN Append(merged_records, record)
        ELSE [merged_records EXCEPT ![i] = record]

\* the first loop of sync_data: every existing row enters the dict
RECURSIVE AddExisting(_, _)
AddExisting(merged_records, rows) ==
    IF rows = <<>> THEN merged_records
    ELSE AddExisting(SetKey(merged_records, Head(rows)), Tail(rows))

\* one pass of the second loop: a row whose id is a key is merged into the
\* record under it, any other row enters stamped with the current time
MergeRow(merged_records, new_record, t) ==
    LET i == KeyIndex(merged_records, new_record["id"])
    IN  IF i # 0
        THEN SetKey(merged_records,
                    PreserveAdditionalColumns(merged_records[i], new_record, t))
        ELSE SetKey(merged_records, SetField(new_record, "last_updated", Stamp(t)))

RECURSIVE MergeRows(_, _, _)
MergeRows(merged_records, rows, t) ==
    IF rows = <<>> THEN merged_records
    ELSE MergeRows(MergeRow(merged_records, Head(rows), t), Tail(rows), t)

\* a sync_data that merges the batch into an empty table as into any other
SyncDataAlwaysMerge(existing_data, new_data, t) ==
    ToFrame(MergeRows(AddExisting(<<>>, IdAsStr(existing_data)), IdAsStr(new_data), t))

\* a sync_data that stamps every row of the table it returns
SyncDataStampAll(existing_data, new_data, t) ==
    IF FrameEmpty(existing_data) THEN StampRows(new_data, t)
    ELSE StampRows(ToFrame(MergeRows(AddExisting(<<>>, IdAsStr(existing_data)),
                                     IdAsStr(new_data), t)), t)

\* sync_data, from what read_data returned and the new DataFrame, at second t
SyncData(existing_data, new_data, t) ==
    IF FrameEmpty(existing_data) THEN StampRows(new_data, t)
    ELSE ToFrame(MergeRows(AddExisting(<<>>, IdAsStr(existing_data)),
                           IdAsStr(new_data), t))

\* ------------------------------------------------- the spreadsheet store
\* GoogleSheetsProvider's configuration, at its defaults
BackupEnabled == TRUE
BackupKeepCount == 3
BackupAutoCleanup == TRUE

\* The sheet is the sequence of its data rows, each a record of texts over
\* the header row's columns; a sheet with no values, or with the header row
\* alone, is the empty sequence.  The spreadsheet is the sequence of the titles
\* of its sheets, in their order.  A handler's log holds the requests it
\* sent to the Sheets API, each with whether it succeeded, and an entry for
\* each return of create_backup_sheet, ok when it returned a name.  fault is
\* the set of requests that fail while the handler runs.
Call(op, ok) == <<[op |-> op, ok |-> ok]>>

\* self.sheet_name, at its default
SheetName == <<"T", "e", "l", "e", "g", "r", "a", "m", " ", "D", "a", "t", "a">>

\* backup_prefix = f"{self.sheet_name}_backup_"
BackupPrefix == SheetName \o <<"_", "b", "a", "c", "k", "u", "p", "_">>

\* datetime.now().strftime("%Y%m%d_%H%M") at second t of the clock
BackupSuffix(t) ==
    <<"2", "0", "2", "5", "0", "1", "0", "1", "_", "1", "2">> \o TwoDigits(t \div 60)

\* backup_name = f"{self.sheet_name}_backup_{backup_suffix}"
BackupName(t) == BackupPrefix \o BackupSuffix(t)

\* sheet_title.startswith(backup_prefix)
StartsWith(sheet_title, prefix) ==
    /\ Len(sheet_title) >= Len(prefix)
    /\ SubSeq(sheet_title, 1, Len(prefix)) = prefix

\* int(c) of a digit c
DigitValue ==
    [c \in Digits |-> (CHOOSE i \in 1..10 : DigitChars[i] = c) - 1]

\* int(s[i:i+2]) of two digits
TwoDigitNumber(s, i) == 10 * DigitValue[s[i]] + DigitValue[s[i + 1]]

\* the days of a month, as datetime checks them
DaysInMonth(year, month) ==
    IF month = 2
    THEN IF year % 4 = 0 /\ (year % 100 # 0 \/ year % 400 = 0) THEN 29 ELSE 28
    ELSE IF month \in {4, 6, 9, 11} THEN 30 ELSE 31

\* what stands for ValueError
NoTime == 0 - 1

\* the datetime of the fields strptime read, as a number that orders the
\* datetimes, NoTime when a field is out of its range
DateTime(year, month, day, hour, minute) ==
    IF /\ year >= 1
       /\ month \in 1..12
       /\ day \in 1..DaysInMonth(year, month)
       /\ hour <= 23
       /\ minute <= 59
    THEN (((year * 12 + (month - 1)) * 31 + (day - 1)) * 24 + hour) * 60 + minute
    ELSE NoTime

\* datetime.strptime(timestamp_str, "%Y%m%d_%H%M"), as a number that orders
\* the timestamps, NoTime when it raises ValueError.  For the texts the sheets
\* of the model are named with: eight digits, "_" and four digits, or a text
\* that holds a letter.
StrpTime(timestamp_str) ==
    IF /\ Len(timestamp_str) = 13
       /\ timestamp_str[9] = "_"
       /\ \A i \in (1..8) \cup (10..13) : IsDigit(timestamp_str[i])
    THEN DateTime(100 * TwoDigitNumber(timestamp_str, 1)
                      + TwoDigitNumber(timestamp_str, 3),
                  TwoDigitNumber(timestamp_str, 5),
                  TwoDigitNumber(timestamp_str, 7),
                  TwoDigitNumber(timestamp_str, 10),
                  TwoDigitNumber(timestamp_str, 12))
    ELSE NoTime

\* the timestamp cleanup_old_backups finds in a sheet's title, NoTime for a
\* sheet it skips
BackupTime(sheet_title) ==
    IF StartsWith(sheet_title, BackupPrefix)
    THEN StrpTime(SubSeq(sheet_title, Len(BackupPrefix) + 1, Len(sheet_title)))
    ELSE NoTime

\* the sheets to delete, as a store that sorts the oldest first
SheetsToDeleteOldestKept(sheets, keep_count) ==
    LET timestamp == [i \in DOMAIN sheets |-> BackupTime(sheets[i])]
        backup_sheets == {i \in DOMAIN sheets : timestamp[i] # NoTime}
        before(i) == {j \in backup_sheets :
                         \/ timestamp[j] < timestamp[i]
                         \/ timestamp[j] = timestamp[i] /\ j < i}
    IN  {i \in backup_sheets : Cardinality(before(i)) >= keep_count}

\* the positions that come at keep_count or later when those with a
\* timestamp are sorted by it, the newest first; the sort is stable
SortedFrom(timestamp, keep_count) ==
    {i \in DOMAIN timestamp :
        /\ timestamp[i] # NoTime
        /\ Cardinality({j \in DOMAIN timestamp :
                           /\ timestamp[j] # NoTime
                           /\ \/ timestamp[j] > timestamp[i]
                              \/ timestamp[j] = timestamp[i] /\ j < i})
               >= keep_count}

\* backup_sheets.sort(key=timestamp, reverse=True)[keep_count:], as the
\* positions in the spreadsheet of the sheets to delete
SheetsToDelete(sheets, keep_count) ==
    SortedFrom([i \in DOMAIN sheets |-> BackupTime(sheets[i])], keep_count)

\* the spreadsheet without the sheets at the positions given
RECURSIVE DeleteSheets(_, _)
DeleteSheets(sheets, positions) ==
    IF sheets = <<>> THEN <<>>
    ELSE DeleteSheets(SubSeq(sheets, 1, Len(sheets) - 1), positions)
             \o (IF Len(sheets) \in positions THEN <<>> ELSE <<sheets[Len(sheets)]>>)

\* cleanup_old_backups once it has sorted the backups: the batchUpdate that
\* deletes sheets_to_delete, if there are any
DeleteOldBackups(sheets, sheets_to_delete, fault) ==
    IF sheets_to_delete = {}
    THEN [titles |-> sheets, deleted |-> 0, calls |-> Call("get", TRUE)]
    ELSE IF "deleteSheet" \in fault
    THEN [titles |-> sheets, deleted |-> 0,
          calls |-> Call("get", TRUE) \o Call("deleteSheet", FALSE)]
    ELSE [titles |-> DeleteSheets(sheets, sheets_to_delete),
          deleted |-> Cardinality(sheets_to_delete),
          calls |-> Call("get", TRUE) \o Call("deleteSheet", TRUE)]

\* cleanup_old_backups(keep_count)
CleanupOldBackups(sheets, keep_count, fault) ==
    IF "get" \in fault
    THEN [titles |-> sheets, deleted |-> 0, calls |-> Call("get", FALSE)]
    ELSE DeleteOldBackups(sheets, SheetsToDelete(sheets, keep_count), fault)

\* create_backup_sheet, as a store that copies the sheet whatever the
\* spreadsheet holds
CreateBackupSheetAgain(sheets, t, fault) ==
    LET backup_name == BackupName(t)
        created == <<backup_name>> \o sheets
        cleaned == CleanupOldBackups(created, BackupKeepCount, fault)
    IN  IF "get" \in fault
        THEN [titles |-> sheets,
              calls |-> Call("get", FALSE) \o Call("create_backup_sheet", FALSE)]
        ELSE IF "duplicateSheet" \in fault
        THEN [titles |-> sheets,
              calls |-> Call("get", TRUE) \o Call("duplicateSheet", FALSE)
                            \o Call("create_backup_sheet", FALSE)]
        ELSE [titles |-> cleaned.titles,
              calls |-> Call("get", TRUE) \o Call("duplicateSheet", TRUE)
                            \o cleaned.calls \o Call("create_backup_sheet", TRUE)]

\* create_backup_sheet() at second t
CreateBackupSheet(sheets, t, fault) ==
    LET backup_name == BackupName(t)
        created == <<backup_name>> \o sheets
        cleaned == IF BackupAutoCleanup
                   THEN CleanupOldBackups(created, BackupKeepCount, fault)
                   ELSE [titles |-> created, deleted |-> 0, calls |-> <<>>]
    IN  IF "get" \in fault
        THEN [titles |-> sheets,
              calls |-> Call("get", FALSE) \o Call("create_backup_sheet", FALSE)]
        ELSE IF \A i \in DOMAIN sheets : sheets[i] # SheetName
        THEN [titles |-> sheets,
              calls |-> Call("get", TRUE) \o Call("create_backup_sheet", FALSE)]
        ELSE IF \E i \in DOMAIN sheets : sheets[i] = backup_name
        THEN [titles |-> sheets,
              calls |-> Call("get", TRUE) \o Call("create_backup_sheet", TRUE)]
        ELSE IF "duplicateSheet" \in fault
        THEN [titles |-> sheets,
              calls |-> Call("get", TRUE) \o Call("duplicateSheet", FALSE)
                            \o Call("create_backup_sheet", FALSE)]
        ELSE [titles |-> cleaned.titles,
              calls |-> Call("get", TRUE) \o Call("duplicateSheet", TRUE)
                            \o cleaned.calls \o Call("create_backup_sheet", TRUE)]

\* a store that takes no backup, whatever it is asked and configured to do
ShouldBackupNever(create_backup) == FALSE

\* should_backup = create_backup if create_backup is not None else
\* self.backup_enabled; the argument is "None", "True" or "False"
ShouldBackup(create_backup) ==
    IF create_backup # "None" THEN create_backup = "True" ELSE BackupEnabled

\* the backup a handler takes, or not, before it goes on
BackupIfAsked(sheets, create_backup, t, fault) ==
    IF ShouldBackup(create_backup)
    THEN CreateBackupSheet(sheets, t, fault)
    ELSE [titles |-> sheets, calls |-> <<>>]

\* GoogleSheetsProvider.read_data() at second t: the rows of the sheet, with a
\* last_updated column if the sheet has none, and an empty DataFrame when the
\* request fails
ReadData(rows, t, fault) ==
    IF "values.get" \in fault
    THEN [data |-> <<>>, calls |-> Call("values.get", FALSE)]
    ELSE [data |-> [i \in DOMAIN rows |->
                       IF "last_updated" \in DOMAIN rows[i] THEN rows[i]
                       ELSE SetField(rows[i], "last_updated", Stamp(t))],
          calls |-> Call("values.get", TRUE)]

\* write_data's last_updated column: added if missing, filled where it is NaN
\* or the empty string
FillLastUpdated(data, t) ==
    [i \in DOMAIN data |->
        IF "last_updated" \in DOMAIN data[i]
           /\ data[i]["last_updated"] \notin {NaN, Empty}
        THEN data[i]
        ELSE SetField(data[i], "last_updated", Stamp(t))]

\* _prepare_data_with_hyperlinks: every cell as the text the sheet shows for it
PrepareData(data) ==
    [i \in DOMAIN data |-> [k \in DOMAIN data[i] |-> StrV(CellText(data[i][k]))]]

\* write_data, as a store that gives the write up when it could take no backup
WriteDataBackupOrAbort(rows, sheets, data, create_backup, t, fault) ==
    LET backup == BackupIfAsked(sheets, create_backup, t, fault)
        values == PrepareData(FillLastUpdated(data, t))
    IN  IF backup.calls # <<>> /\ ~backup.calls[Len(backup.calls)].ok
        THEN [sheet |-> rows, titles |-> backup.titles, ok |-> FALSE,
              calls |-> backup.calls]
        ELSE IF "values.clear" \in fault
        THEN [sheet |-> rows, titles |-> backup.titles, ok |-> FALSE,
              calls |-> backup.calls \o Call("values.clear", FALSE)]
        ELSE IF "values.update" \in fault
        THEN [sheet |-> <<>>, titles |-> backup.titles, ok |-> FALSE,
              calls |-> backup.calls \o Call("values.clear", TRUE)
                            \o Call("values.update", FALSE)]
        ELSE [sheet |-> values, titles |-> backup.titles, ok |-> TRUE,
              calls |-> backup.calls \o Call("values.clear", TRUE)
                            \o Call("values.update", TRUE)]

\* GoogleSheetsProvider.write_data(data, create_backup) at second t
WriteData(rows, sheets, data, create_backup, t, fault) ==
    LET backup == BackupIfAsked(sheets, create_backup, t, fault)
        values == PrepareData(FillLastUpdated(data, t))
    IN  IF "values.clear" \in fault
        THEN [sheet |-> rows, titles |-> backup.titles, ok |-> FALSE,
              calls |-> backup.calls \o Call("values.clear", FALSE)]
        ELSE IF "values.update" \in fault
        THEN [sheet |-> <<>>, titles |-> backup.titles, ok |-> FALSE,
              calls |-> backup.calls \o Call("values.clear", TRUE)
                            \o Call("values.update", FALSE)]
        ELSE [sheet |-> values, titles |-> backup.titles, ok |-> TRUE,
              calls |-> backup.calls \o Call("values.clear", TRUE)
                            \o Call("values.update", TRUE)]

\* GoogleSheetsProvider.sync_data(new_data) at second t
SheetsSyncData(rows, sheets, new_data, t, fault) ==
    LET backup == BackupIfAsked(sheets, "None", t, fault)
        existing == ReadData(rows, t, fault)
    IN  [data |-> SyncData(existing.data, new_data, t),
         titles |-> backup.titles,
         calls |-> backup.calls \o existing.calls]

\* the providers ProviderManager loaded from the configuration
Providers == <<"google_sheets">>

\* ProviderManager.sync_data(records): sync_data then write_data on the
\* provider, the write starting at second t + dt
ProviderManagerSyncData(rows, sheets, records, t, dt, fault) ==
    IF records = <<>>
    THEN [sheet |-> rows, titles |-> sheets, calls |-> <<>>,
          outcome |-> "True"]
    ELSE LET synced == SheetsSyncData(rows, sheets, ToFrame(records), t, fault)
             written == WriteData(rows, synced.titles, synced.data, "None",
                                  t + dt, fault)
             success_count == IF written.ok THEN 1 ELSE 0
         IN  [sheet |-> written.sheet, titles |-> written.titles,
              calls |-> synced.calls \o written.calls,
              outcome |-> IF success_count = 0 THEN "raised"
                          ELSE IF success_count = Len(Providers) THEN "True"
                          ELSE "False"]

\* for col in required_columns: if col not in data.columns: data[col] = ''
RECURSIVE EnsureColumns(_, _)
EnsureColumns(data, columns) ==
    IF columns = <<>> THEN data
    ELSE EnsureColumns(
             [i \in DOMAIN data |->
                 IF Head(columns) \in DOMAIN data[i] THEN data[i]
                 ELSE SetField(data[i], Head(columns), Empty)],
             Tail(columns))

\* data.loc[row_index, field] = value, when value is not None
SetIfGiven(record, field, value) ==
    IF value = None THEN record ELSE SetField(record, field, StrV(PyStr(value)))

\* MessageLoader.update_row_status(row_index, status, messages_data,
\* last_message_id, total_messages) at second t; rows count from 0
UpdateRowStatus(rows, sheets, row_index, update, t, fault) ==
    LET read == ReadData(rows, t, fault)
        data == EnsureColumns(read.data,
                    <<"processing_status", "messages", "last_loaded_message",
                      "total_messages">>)
        row == SetField(
                   SetIfGiven(
                       SetIfGiven(
                           SetIfGiven(
                               SetField(data[row_index + 1], "processing_status",
                                        update.status),
                               "messages", update.messages_data),
                           "last_loaded_message", update.last_message_id),
                       "total_messages", update.total_messages),
                   "last_updated", Stamp(t))
        written == WriteData(rows, sheets,
                             [data EXCEPT ![row_index + 1] = row], "False", t, fault)
    IN  IF row_index >= Len(read.data)
        THEN [sheet |-> rows, titles |-> sheets, calls |-> read.calls,
              outcome |-> "False"]
        ELSE [sheet |-> written.sheet, titles |-> written.titles,
              calls |-> read.calls \o written.calls,
              outcome |-> IF written.ok THEN "True" ELSE "False"]

\* CommonGroupsLoader.update_row_common_groups(row_index, common_groups_data)
UpdateRowCommonGroups(rows, sheets, row_index, common_groups_data, t, fault) ==
    LET read == ReadData(rows, t, fault)
        data == EnsureColumns(read.data, <<"common_groups">>)
        row == SetField(
                   SetField(data[row_index + 1], "common_groups", common_groups_data),
                   "last_updated", Stamp(t))
        written == WriteData(rows, sheets,
                             [data EXCEPT ![row_index + 1] = row], "False", t, fault)
    IN  IF row_index >= Len(read.data)
        THEN [sheet |-> rows, titles |-> sheets, calls |-> read.calls,
              outcome |-> "False"]
        ELSE [sheet |-> written.sheet, titles |-> written.titles,
              calls |-> read.calls \o written.calls,
              outcome |-> IF written.ok THEN "True" ELSE "False"]

\* --------------------------------------------------------- the CSV store
\* CSVDataProvider's configuration, at its default
CsvBackupEnabled == TRUE

\* The file at csv_path is there or not; when it is there it holds a header
\* row and data rows, each a record of texts as to_csv wrote them.  backups
\* are the seconds at which a write renamed the file to a backup.  The
\* requests that may fail are "read_csv", "rename" and "to_csv".
NoFile == [exists |-> FALSE, rows |-> <<>>]
File(rows) == [exists |-> TRUE, rows |-> rows]

\* the number a text of digits stands for
RECURSIVE DecimalValue(_)
DecimalValue(s) ==
    IF s = <<>> THEN 0
    ELSE 10 * DecimalValue(SubSeq(s, 1, Len(s) - 1)) + DigitValue[s[Len(s)]]

\* the texts read_csv takes for a whole number, and for a float of the shape
\* to_csv gives a whole float
IsIntText(s) == s # <<>> /\ \A i \in DOMAIN s : IsDigit(s[i])
IsFloatText(s) ==
    /\ Len(s) > 2
    /\ SubSeq(s, Len(s) - 1, Len(s)) = <<".", "0">>
    /\ IsIntText(SubSeq(s, 1, Len(s) - 2))

\* one cell as read_csv returns it, given the texts of its column: a column
\* of whole numbers is int64; a column of numbers and empty cells is float64,
\* the empty cells NaN; any other column keeps its texts, the empty cells
\* NaN.  For the texts the model writes to the file: digits, digits and
\* ".0", empty, or a text with a letter, a blank or a dash that is none of
\* the texts read_csv takes for a missing value or a truth value.
ParseCell(s, column) ==
    IF s = <<>> THEN NaN
    ELSE IF \A c \in column : IsIntText(c) THEN IntV(DecimalValue(s))
    ELSE IF \A c \in column : c = <<>> \/ IsIntText(c) \/ IsFloatText(c)
    THEN FloatV(DecimalValue(IF IsIntText(s) THEN s ELSE SubSeq(s, 1, Len(s) - 2)))
    ELSE StrV(s)

\* pd.read_csv(csv_path) on the rows of the file
ReadCsv(rows) ==
    [i \in DOMAIN rows |->
        [k \in DOMAIN rows[i] |->
            ParseCell(rows[i][k].s, {rows[j][k].s : j \in DOMAIN rows})]]

\* CSVDataProvider.read_data() at second t: the empty table when there is no
\* file or read_csv fails, else the rows, with a last_updated column if the
\* file has none
CsvReadData(file, t, fault) ==
    IF ~file.exists \/ "read_csv" \in fault THEN <<>>
    ELSE [i \in DOMAIN file.rows |->
             IF "last_updated" \in DOMAIN file.rows[i] THEN ReadCsv(file.rows)[i]
             ELSE SetField(ReadCsv(file.rows)[i], "last_updated", Stamp(t))]

\* CSVDataProvider.sync_data(new_data) at second t
CsvSyncData(file, new_data, t, fault) ==
    SyncData(CsvReadData(file, t, fault), new_data, t)

\* data.to_csv(csv_path, index=False): every cell as its text, NaN as the
\* empty text (for tables none of whose columns holds ints and NaN or floats
\* together, which pandas would write as floats)
ToCsv(data) ==
    [i \in DOMAIN data |-> [k \in DOMAIN data[i] |-> StrV(CellText(data[i][k]))]]

\* CSVDataProvider.write_data(data) at second t: the file is renamed to a
\* backup, then the table is written to csv_path
CsvWriteData(file, backups, data, t, fault) ==
    IF CsvBackupEnabled /\ file.exists /\ "rename" \in fault
    THEN [file |-> file, backups |-> backups, ok |-> FALSE]
    ELSE IF "to_csv" \in fault
    THEN [file |-> IF CsvBackupEnabled THEN NoFile ELSE file,
          backups |-> IF CsvBackupEnabled /\ file.exists
                      THEN backups \cup {t} ELSE backups,
          ok |-> FALSE]
    ELSE [file |-> File(ToCsv(FillLastUpdated(data, t))),
          backups |-> IF CsvBackupEnabled /\ file.exists
                      THEN backups \cup {t} ELSE backups,
          ok |-> TRUE]

\* ------------------------------------------ collecting contacts and chats
\* A user of the messaging API is a record of id, username, first_name,
\* last_name, phone and bot, a text or None each but the id and bot; a dialog
\* is a record of its entity, whether that is a User, its unread_count and
\* its date, a second or None.

\* x or ''
OrEmpty(v) == IF Truthy(v) THEN v ELSE Empty

\* f"{first_name or ''} {last_name or ''}".strip()
TitleOf(first_name, last_name) ==
    StrV(Strip(OrEmpty(first_name).s \o <<" ">> \o OrEmpty(last_name).s))

YesNo(flag) == IF flag THEN Yes ELSE No

\* collect_contacts: contact_info of a user of result.users
ContactInfo(contact) ==
    [id |-> contact.id, username |-> OrEmpty(contact.username),
     first_name |-> OrEmpty(contact.first_name),
     last_name |-> OrEmpty(contact.last_name),
     title |-> TitleOf(contact.first_name, contact.last_name),
     phone |-> OrEmpty(contact.phone), is_contact |-> Yes,
     is_bot |-> YesNo(contact.bot), has_chat |-> No, unread_count |-> IntV(0),
     last_message_date |-> Empty, common_groups |-> Empty]

CollectContacts(users) == [i \in DOMAIN users |-> ContactInfo(users[i])]

\* collect_chats: user_record of a dialog whose entity is a User
UserRecord(dialog) ==
    [id |-> dialog.entity.id, username |-> OrEmpty(dialog.entity.username),
     first_name |-> OrEmpty(dialog.entity.first_name),
     last_name |-> OrEmpty(dialog.entity.last_name),
     title |-> TitleOf(dialog.entity.first_name, dialog.entity.last_name),
     phone |-> Empty, is_contact |-> No, is_bot |-> YesNo(dialog.entity.bot),
     has_chat |-> Yes, unread_count |-> dialog.unread_count,
     last_message_date |-> IF dialog.date = None THEN Empty ELSE Stamp(dialog.date.n),
     common_groups |-> Empty]

RECURSIVE CollectChats(_)
CollectChats(dialogs) ==
    IF dialogs = <<>> THEN <<>>
    ELSE IF Head(dialogs).is_user
    THEN <<UserRecord(Head(dialogs))>> \o CollectChats(Tail(dialogs))
    ELSE CollectChats(Tail(dialogs))

\* ---------------------------------------------- merging contacts and chats
\* The dicts of merge_contacts_and_chats live in a heap of three parts: the
\* list contacts_data, the list chats_data, and merged_records, a sequence of
\* entries in the order their keys were put, each with its key, its dict and
\* the place of the input dict it is the same object as, "own" when it is an
\* object of its own.

\* the dict put into merged_records, as a function that puts the input dict
\* itself
NoCopy(record, place) == [record |-> record, alias |-> place]

\* record.copy()
Copy(record, place) == [record |-> record, alias |-> "own"]

\* the place of key in merged_records, 0 if it is not there
EntryIndex(merged_records, key) ==
    IF \E i \in DOMAIN merged_records : merged_records[i].key = key
    THEN CHOOSE i \in DOMAIN merged_records : merged_records[i].key = key
    ELSE 0

\* merged_records[key] = entry
PutEntry(merged_records, key, entry) ==
    IF EntryIndex(merged_records, key) = 0
    THEN Append(merged_records, [key |-> key] @@ entry)
    ELSE [merged_records EXCEPT ![EntryIndex(merged_records, key)] = [key |-> key] @@ entry]

\* existing_record[field] = value, existing_record the dict at place i of
\* merged_records: the assignment shows in every list that holds the object
AssignField(heap, i, field, value) ==
    [merged_records |->
         [heap.merged_records EXCEPT ![i].record = SetField(@, field, value)],
     contacts_data |->
         IF heap.merged_records[i].alias \in {<<"contacts_data", k>> : k \in DOMAIN heap.contacts_data}
         THEN [heap.contacts_data EXCEPT
                  ![heap.merged_records[i].alias[2]] = SetField(@, field, value)]
         ELSE heap.contacts_data,
     chats_data |->
         IF heap.merged_records[i].alias \in {<<"chats_data", k>> : k \in DOMAIN heap.chats_data}
         THEN [heap.chats_data EXCEPT
                  ![heap.merged_records[i].alias[2]] = SetField(@, field, value)]
         ELSE heap.chats_data]

\* for contact in contacts_data: merged_records[str(contact['id'])] =
\* contact.copy(), from the k-th contact on
RECURSIVE AddContacts(_, _)
AddContacts(heap, k) ==
    IF k > Len(heap.contacts_data) THEN heap
    ELSE AddContacts(
             [heap EXCEPT !.merged_records =
                 PutEntry(@, PyStr(heap.contacts_data[k]["id"]),
                          Copy(heap.contacts_data[k], <<"contacts_data", k>>))],
             k + 1)

\* existing_record['title'] = f"{first_name or ''} {last_name or ''}".strip()
AssignTitle(heap, i) ==
    AssignField(heap, i, "title",
                TitleOf(heap.merged_records[i].record["first_name"],
                        heap.merged_records[i].record["last_name"]))

\* the body of `for field in [...]` once the field was taken from the chat
TitleIfName(heap, i, field) ==
    IF field \in {"first_name", "last_name"} THEN AssignTitle(heap, i) ELSE heap

\* for field in ['username', 'first_name', 'last_name']: the chat's value
\* where it is not empty and the record's is
RECURSIVE PreferNonEmpty(_, _, _, _)
PreferNonEmpty(heap, i, chat, fields) ==
    IF fields = <<>> THEN heap
    ELSE IF Truthy(chat[Head(fields)])
            /\ ~Truthy(heap.merged_records[i].record[Head(fields)])
    THEN PreferNonEmpty(
             TitleIfName(AssignField(heap, i, Head(fields), chat[Head(fields)]),
                         i, Head(fields)),
             i, chat, Tail(fields))
    ELSE PreferNonEmpty(heap, i, chat, Tail(fields))

\* the branch `if user_id in merged_records` for the dict at place i
MergeChatInfo(heap, i, chat) ==
    PreferNonEmpty(
        AssignField(
            AssignField(AssignField(heap, i, "has_chat", Yes),
                        i, "unread_count", chat["unread_count"]),
            i, "last_message_date", chat["last_message_date"]),
        i, chat, <<"username", "first_name", "last_name">>)

\* the body of `for chat in chats_data` for the k-th chat
MergeChat(heap, k) ==
    IF EntryIndex(heap.merged_records, PyStr(heap.chats_data[k]["id"])) # 0
    THEN MergeChatInfo(heap,
                       EntryIndex(heap.merged_records, PyStr(heap.chats_data[k]["id"])),
                       heap.chats_data[k])
    ELSE [heap EXCEPT !.merged_records =
             PutEntry(@, PyStr(heap.chats_data[k]["id"]),
                      Copy(heap.chats_data[k], <<"chats_data", k>>))]

RECURSIVE MergeChats(_, _)
MergeChats(heap, k) ==
    IF k > Len(heap.chats_data) THEN heap
    ELSE MergeChats(MergeChat(heap, k), k + 1)

\* list(merged_records.values()), with the input lists as the call left them
MergedList(heap) ==
    [contacts_data |-> heap.contacts_data, chats_data |-> heap.chats_data,
     merged_list |-> [i \in DOMAIN heap.merged_records |-> heap.merged_records[i].record]]

\* merge_contacts_and_chats(contacts_data, chats_data)
MergeContactsAndChats(contacts, chats) ==
    MergedList(MergeChats(AddContacts([contacts_data |-> contacts, chats_data |-> chats,
                                       merged_records |-> <<>>], 1), 1))

\* ---------------------------------------------------- the provider manager
\* The stores are a record of the sheet's rows, the spreadsheet's titles, the
\* file and its backups.  ProviderManager.sync_data's log holds, for each
\* provider it went to, whether sync_data returned and what write_data
\* returned ("None" when it was not called).

\* existing_data['id'] raises KeyError: the table has rows and no id column
NoIdColumn(data) == data # <<>> /\ "id" \notin DOMAIN data[1]

\* the body of the loop for the spreadsheet provider, the write starting at
\* second t + dt: what sync_data and write_data left and returned
SheetsWritten(stores, written) ==
    [stores |-> [stores EXCEPT !.sheet = written.sheet, !.titles = written.titles],
     tried |-> [provider |-> "google_sheets", synced |-> TRUE,
                wrote |-> IF written.ok THEN "True" ELSE "False"]]

SheetsSynced(stores, synced, t, fault) ==
    SheetsWritten(stores,
                  WriteData(stores.sheet, synced.titles, synced.data, "None", t, fault))

SheetsPass(stores, df, t, dt, fault) ==
    IF NoIdColumn(ReadData(stores.sheet, t, fault).data)
    THEN [stores |-> [stores EXCEPT
                         !.titles = BackupIfAsked(stores.titles, "None", t, fault).titles],
          tried |-> [provider |-> "google_sheets", synced |-> FALSE, wrote |-> "None"]]
    ELSE SheetsSynced(stores, SheetsSyncData(stores.sheet, stores.titles, df, t, fault),
                      t + dt, fault)

\* the body of the loop for the CSV provider
CsvWritten(stores, written) ==
    [stores |-> [stores EXCEPT !.file = written.file, !.backups = written.backups],
     tried |-> [provider |-> "csv", synced |-> TRUE,
                wrote |-> IF written.ok THEN "True" ELSE "False"]]

CsvPass(stores, df, t, dt, fault) ==
    IF NoIdColumn(CsvReadData(stores.file, t, fault))
    THEN [stores |-> stores,
          tried |-> [provider |-> "csv", synced |-> FALSE, wrote |-> "None"]]
    ELSE CsvWritten(stores,
                    CsvWriteData(stores.file, stores.backups,
                                 CsvSyncData(stores.file, df, t, fault), t + dt, fault))

\* one turn of `for provider in self.providers`
ProviderPass(provider, stores, df, t, dt, fault) ==
    IF provider = "csv" THEN CsvPass(stores, df, t, dt, fault)
    ELSE SheetsPass(stores, df, t, dt, fault)

\* the loop, a turn starting at second t and the next at t + dt: the stores
\* it leaves and the log of its turns
RECURSIVE SyncProviders(_, _, _, _, _, _, _)
\* the loop, as a manager that leaves it at the first provider that failed
SyncProvidersOnUntilFailure(providers, pass, tried, df, t, dt, fault) ==
    IF pass.tried.wrote # "True"
    THEN [stores |-> pass.stores, tried |-> Append(tried, pass.tried)]
    ELSE SyncProviders(providers, pass.stores, Append(tried, pass.tried), df, t + dt,
                       dt, fault)

SyncProvidersOn(providers, pass, tried, df, t, dt, fault) ==
    SyncProviders(providers, pass.stores, Append(tried, pass.tried), df, t + dt, dt,
                  fault)

SyncProviders(providers, stores, tried, df, t, dt, fault) ==
    IF providers = <<>> THEN [stores |-> stores, tried |-> tried]
    ELSE SyncProvidersOn(Tail(providers),
                         ProviderPass(Head(providers), stores, df, t, dt, fault),
                         tried, df, t, dt, fault)

\* success_count, from the log
SuccessCount(tried) == Cardinality({i \in DOMAIN tried : tried[i].wrote = "True"})

\* the end of ProviderManager.sync_data: it raises when no provider
\* succeeded, else returns whether all did
ManagerReturns(providers, synced) ==
    [stores |-> synced.stores, tried |-> synced.tried,
     outcome |-> IF SuccessCount(synced.tried) = 0 THEN "raised"
                 ELSE IF SuccessCount(synced.tried) = Len(providers) THEN "True"
                 ELSE "False"]

\* ProviderManager.sync_data(records) on the providers configured: what it
\* leaves, its log and what it returns
ManagerSyncData(providers, stores, records, t, dt, fault) ==
    IF records = <<>>
    THEN [stores |-> stores, tried |-> <<>>, outcome |-> "True"]
    ELSE ManagerReturns(providers,
                        SyncProviders(providers, stores, <<>>, ToFrame(records),
                                      t, dt, fault))

\* ------------------------------------------------- records the program holds
Without(record, field) == [k \in (DOMAIN record) \ {field} |-> record[k]]

Date09 == StrV(<<"2", "0", "2", "4", "-", "0", "3", "-", "0", "1", " ", "0", "9", ":", "1", "5", ":", "0", "0">>)
Date9 == StrV(<<"2", "0", "2", "4", "-", "0", "3", "-", "0", "1", " ", "9", ":", "1", "5", ":", "0", "0">>)
Date10 == StrV(<<"2", "0", "2", "4", "-", "0", "3", "-", "0", "1", " ", "1", "0", ":", "1", "5", ":", "0", "0">>)

\* a contact without a chat, as collect_contacts builds it, its id already
\* turned into a str by sync_data
CollectedContact ==
    [id |-> StrV(<<"1">>), username |-> StrV(<<"u">>), first_name |-> StrV(<<"a">>),
     last_name |-> StrV(<<"b">>), title |-> StrV(<<"a", " ", "b">>),
     phone |-> StrV(<<"1", "5">>), is_contact |-> Yes, is_bot |-> No,
     has_chat |-> No, unread_count |-> IntV(0), last_message_date |-> Empty,
     common_groups |-> Empty]

\* the same contact as a row read back from the sheet: every cell a str
StoredContact ==
    [k \in (DOMAIN CollectedContact) \cup {"last_updated"} |->
        IF k = "last_updated" THEN Stamp(0)
        ELSE StrV(PyStr(CollectedContact[k]))]

\* cells in which a stored row may differ from StoredContact
ExistingCells ==
    {<<"username", Empty>>, <<"username", StrV(<<"v">>)>>,
     <<"first_name", Empty>>, <<"first_name", StrV(<<"a", " ">>)>>,
     <<"phone", Empty>>, <<"phone", StrV(<<"+", "1", "-", "5">>)>>,
     <<"phone", StrV(<<"2", "5">>)>>,
     <<"is_contact", No>>, <<"is_contact", Empty>>,
     <<"is_bot", Yes>>, <<"has_chat", Yes>>,
     <<"unread_count", StrV(<<"3">>)>>, <<"unread_count", Empty>>,
     <<"last_message_date", Date09>>, <<"last_message_date", Date9>>,
     <<"last_message_date", Date10>>,
     <<"common_groups", StrV(<<"g">>)>>,
     <<"processing_status", StrV(<<"d", "o", "n", "e">>)>>}

ExistingRecords ==
    {StoredContact}
        \cup {SetField(StoredContact, c[1], c[2]) : c \in ExistingCells}
        \cup {Without(StoredContact, f) : f \in {"common_groups", "id"}}

\* cells in which a new record may differ from CollectedContact
NewCells ==
    {<<"username", Empty>>, <<"username", StrV(<<"v">>)>>,
     <<"first_name", Empty>>, <<"first_name", StrV(<<"b">>)>>,
     <<"first_name", StrV(<<"a", " ">>)>>,
     <<"last_name", StrV(<<"c">>)>>, <<"title", StrV(<<"t">>)>>,
     <<"phone", Empty>>, <<"phone", StrV(<<"+", "1", "-", "5">>)>>,
     <<"phone", StrV(<<"2", "5">>)>>,
     <<"is_contact", No>>,
     <<"is_bot", Yes>>, <<"is_bot", Empty>>,
     <<"has_chat", Yes>>,
     <<"unread_count", IntV(3)>>, <<"unread_count", Empty>>,
     <<"last_message_date", Date09>>, <<"last_message_date", Date9>>,
     <<"last_message_date", Date10>>,
     <<"common_groups", StrV(<<"g">>)>>, <<"common_groups", StrV(<<"h">>)>>,
     <<"processing_status", Empty>>,
     <<"last_updated", Stamp(59)>>}

NewRecords ==
    {CollectedContact}
        \cup {SetField(CollectedContact, c[1], c[2]) : c \in NewCells}
        \cup {Without(CollectedContact, f) : f \in {"common_groups", "id"}}

\* a user with a chat who is no contact, as collect_chats builds it
CollectedChat ==
    [id |-> IntV(2), username |-> StrV(<<"w">>), first_name |-> StrV(<<"c">>),
     last_name |-> Empty, title |-> StrV(<<"c">>), phone |-> Empty,
     is_contact |-> No, is_bot |-> No, has_chat |-> Yes,
     unread_count |-> IntV(3), last_message_date |-> Date10,
     common_groups |-> Empty]

\* that user as a row read back from the sheet
StoredChat ==
    [k \in (DOMAIN CollectedChat) \cup {"last_updated"} |->
        IF k = "last_updated" THEN Stamp(0)
        ELSE StrV(PyStr(CollectedChat[k]))]

\* stored tables: none, one row, two rows over the same columns
ExistingTables ==
    {<<>>}
        \cup {<<e>> : e \in {x \in ExistingRecords : "id" \in DOMAIN x}}
        \cup {<<e, StoredChat>> :
                e \in {x \in ExistingRecords : DOMAIN x = DOMAIN StoredChat}}

\* new records as the collectors hand them over: the id is an int
BatchRecords ==
    {SetField(n, "id", IntV(1)) : n \in {x \in NewRecords : "id" \in DOMAIN x}}

\* records of one id that a batch may hold twice
RepeatedRecords ==
    {SetField(CollectedContact, "id", IntV(1))}
        \cup {SetField(SetField(CollectedContact, "id", IntV(1)), c[1], c[2]) :
                c \in {<<"first_name", StrV(<<"b">>)>>, <<"first_name", Empty>>,
                       <<"has_chat", Yes>>, <<"unread_count", IntV(3)>>}}

\* lists of new records: one, one and another id's, two of one id
Batches ==
    {<<n>> : n \in BatchRecords}
        \cup {<<n, CollectedChat>> : n \in BatchRecords}
        \cup {<<n, m>> : n \in RepeatedRecords, m \in RepeatedRecords}

\* ------------------------------------------- what the store handlers are given
\* sheets found at the start: blank, one row, two rows
StoredSheets == {<<>>, <<StoredContact>>, <<StoredContact, StoredChat>>}

\* a backup sheet of minute mm of the hour gone by
OldBackup(mm) ==
    BackupPrefix \o <<"2", "0", "2", "5", "0", "1", "0", "1", "_", "1", "1">>
        \o TwoDigits(mm)

\* a copy of the sheet somebody made and named by hand
ManualBackup == BackupPrefix \o <<"o", "l", "d">>

\* a sheet named like a backup, of a day that is none
BadDateBackup ==
    BackupPrefix \o <<"2", "0", "2", "5", "0", "2", "3", "1", "_", "1", "2", "0", "0">>

\* another sheet of the spreadsheet, and a backup of it
OtherSheet == <<"C", "h", "a", "t", "s">>
OtherBackup ==
    OtherSheet \o <<"_", "b", "a", "c", "k", "u", "p", "_",
                    "2", "0", "2", "5", "0", "1", "0", "1", "_", "1", "1", "5", "5">>

\* spreadsheets found at the start: the sheet alone; the sheet and three
\* backups of it, one of this minute; the sheet, four backups of it and
\* sheets that are none, in the order somebody left the tabs in
Spreadsheets ==
    {<<SheetName>>,
     <<BackupName(0), OldBackup(59), OldBackup(58), SheetName>>,
     <<OldBackup(58), ManualBackup, OldBackup(56), OtherBackup, OldBackup(59),
       SheetName, BadDateBackup, OldBackup(57), OtherSheet>>}

\* retention counts cleanup_old_backups is called with
KeepCounts == 0..MaxKeepCount

\* lists of records given to ProviderManager.sync_data: none, a contact, a
\* contact and a user with a chat
ExportBatches ==
    {<<>>,
     <<SetField(CollectedContact, "id", IntV(1))>>,
     <<SetField(SetField(CollectedContact, "id", IntV(1)), "first_name", StrV(<<"b">>)),
       CollectedChat>>}

\* arguments process_single_row gives update_row_status: in progress, done
\* with messages, error
StatusUpdates ==
    {[status |-> StrV(<<"i", "n", "_", "p", "r", "o", "g", "r", "e", "s", "s">>),
      messages_data |-> None, last_message_id |-> None, total_messages |-> None],
     [status |-> StrV(<<"d", "o", "n", "e">>), messages_data |-> StrV(<<"m">>),
      last_message_id |-> IntV(7), total_messages |-> IntV(5)],
     [status |-> StrV(<<"e", "r", "r", "o", "r">>), messages_data |-> StrV(<<"e">>),
      last_message_id |-> None, total_messages |-> IntV(0)]}

\* texts update_row_common_groups is given
CommonGroupsTexts == {StrV(<<"g">>)}

\* the requests that fail while one handler runs, among those it may send:
\* none, or those of one kind
Faults ==
    {{}} \cup {{op} : op \in {"get", "duplicateSheet", "deleteSheet",
                              "values.get", "values.clear", "values.update"}}

\* users the messaging API answers with: one with all its fields, the same
\* user with none, and a bot without a last name and phone
ApiUsers ==
    {[id |-> IntV(1), username |-> StrV(<<"u">>), first_name |-> StrV(<<"a">>),
      last_name |-> StrV(<<"b">>), phone |-> StrV(<<"1", "5">>), bot |-> FALSE],
     [id |-> IntV(1), username |-> None, first_name |-> None, last_name |-> None,
      phone |-> None, bot |-> FALSE],
     [id |-> IntV(2), username |-> StrV(<<"w">>), first_name |-> StrV(<<"c">>),
      last_name |-> None, phone |-> None, bot |-> TRUE]}

\* sequences of at most n members of a set
RECURSIVE SeqsUpTo(_, _)
SeqsUpTo(S, n) ==
    IF n = 0 THEN {<<>>}
    ELSE SeqsUpTo(S, n - 1)
             \cup {Append(q, x) : q \in {r \in SeqsUpTo(S, n - 1) : Len(r) = n - 1}, x \in S}

\* result.users of GetContactsRequest
UserLists == SeqsUpTo(ApiUsers, MaxCollected)

\* dialogs of get_dialogs: with a user, read or with three unread messages
\* and a date, and with a group
ApiDialogs ==
    {[is_user |-> TRUE, entity |-> u, unread_count |-> IntV(3), date |-> IntV(0)] :
         u \in ApiUsers}
        \cup {[is_user |-> TRUE, entity |-> u, unread_count |-> IntV(0), date |-> None] :
                  u \in {v \in ApiUsers : v.id = IntV(2)}}
        \cup {[is_user |-> FALSE, entity |-> [id |-> IntV(1)],
                unread_count |-> IntV(0), date |-> IntV(0)]}

DialogLists == SeqsUpTo(ApiDialogs, MaxCollected)

\* provider lists _load_providers builds from the configuration
ProviderLists ==
    {<<"csv">>, <<"csv", "google_sheets">>, <<"google_sheets", "csv">>}

\* files found at the start: none, files the program wrote, and a file with
\* no id column that somebody put there
CsvFiles ==
    {NoFile, File(<<[first_name |-> StrV(<<"a">>)]>>)}
        \cup {File(ToCsv(FillLastUpdated(ToFrame(batch), 0))) :
                  batch \in ExportBatches \ {<<>>}}

LoaderFaults ==
    {{}} \cup {{op} : op \in {"values.get", "values.clear", "values.update"}}

\* what fails while ProviderManager.sync_data runs: of the file's operations
\* none or one kind, and of the requests for the sheet's values none or one
\* kind
ManagerFaults ==
    {c \cup f : c \in {{}} \cup {{op} : op \in {"read_csv", "rename", "to_csv"}},
                f \in LoaderFaults}

BackupFaults ==
    {{}} \cup {{op} : op \in {"get", "duplicateSheet", "deleteSheet"}}

\* ------------------------------------------------ the message loader's rows
InProgress == StrV(<<"i", "n", "_", "p", "r", "o", "g", "r", "e", "s", "s">>)
Done == StrV(<<"d", "o", "n", "e">>)
Error == StrV(<<"e", "r", "r", "o", "r">>)

\* get_pending_rows' mask on a row: the messages are empty, the status is
\* neither 'in_progress' nor 'done', and the id is there
Pending(row) ==
    /\ Get(row, "messages") \in {NaN, Empty}
    /\ Get(row, "processing_status") # InProgress
    /\ Get(row, "processing_status") # Done
    /\ row["id"] \notin {NaN, Empty}

\* how process_single_row goes on after it has set 'in_progress': the check
\* returns an error, the chat has no messages, the load returns an error, the
\* messages are loaded, or something raises
Branches == {"check_error", "no_messages", "load_error", "loaded", "exception"}

\* the arguments of the update_row_status call that ends a branch
LastUpdate(branch) ==
    IF branch = "loaded"
    THEN [status |-> Done, messages_data |-> StrV(<<"m">>),
          last_message_id |-> IntV(7), total_messages |-> IntV(5)]
    ELSE IF branch = "no_messages"
    THEN [status |-> Done, messages_data |-> StrV(<<"n">>),
          last_message_id |-> None, total_messages |-> IntV(0)]
    ELSE [status |-> Error, messages_data |-> StrV(<<"e">>),
          last_message_id |-> None, total_messages |-> IntV(0)]

\* what process_single_row returns and leaves, from its two update_row_status
\* calls: the last call's result, False whatever it is when something raised
Returned(first, last, row_index, branch) ==
    [sheet |-> last.sheet, titles |-> last.titles,
     calls |-> first.calls \o last.calls, row_index |-> row_index,
     outcome |-> IF branch = "exception" THEN "False" ELSE last.outcome]

\* process_single_row once update_row_status(row_index, 'in_progress') is
\* back: False when that failed, else the branch and its last update
AfterInProgress(first, row_index, branch, t, fault) ==
    IF first.outcome # "True"
    THEN [sheet |-> first.sheet, titles |-> first.titles, calls |-> first.calls,
          row_index |-> row_index, outcome |-> "False"]
    ELSE Returned(first,
                  UpdateRowStatus(first.sheet, first.titles, row_index,
                                  LastUpdate(branch), t, fault),
                  row_index, branch)

\* MessageLoader.process_single_row(row, row_index); fault_first are the
\* requests that fail during its first update, fault_last during its last
ProcessSingleRow(rows, sheets, row_index, branch, t, dt, fault_first, fault_last) ==
    AfterInProgress(
        UpdateRowStatus(rows, sheets, row_index,
                        [status |-> InProgress, messages_data |-> None,
                         last_message_id |-> None, total_messages |-> None],
                        t, fault_first),
        row_index, branch, t + dt, fault_last)

\* ------------------------------------------------------------------- state
VARIABLES
    existing_record,  \* the record a merge starts from
    new_record,       \* the record merged into it
    merged_record,    \* what preserve_additional_columns returned
    raised,           \* the last merge ended in ValueError
    mergeCount,       \* merges done so far
    existing_data,    \* the table a sync_data call starts from
    new_data,         \* the DataFrame of new records given to sync_data
    merged_data,      \* the DataFrame sync_data returned
    syncCount,        \* sync_data calls done so far
    sheet,            \* the data rows of the sheet
    titles,           \* the titles of the spreadsheet's sheets, in order
    handler,          \* the handler that ran last on the store
    calls,            \* its log of requests
    outcome,          \* what it returned: "True", "False", or "raised"
    deleted_count,    \* the count cleanup_old_backups returned
    keep_arg,         \* the keep_count it was called with
    titles_before,    \* the spreadsheet's sheets when the handler started
    started,          \* the clock when it started
    sheet_before,     \* the sheet when it started
    row_arg,          \* the row_index it was given, 0 when it takes none
    passCount,        \* handlers run on the store so far
    routine,          \* the collection routine called last
    pc,               \* where it stands
    attempts,         \* how often its body was entered for that call
    seconds,          \* the wait the last FloodWaitError asked for
    error,            \* the error of the dict it returned, "None" for none
    callCount,        \* collection routines called so far
    providers,        \* self.providers of the ProviderManager
    stores,           \* the sheet, the spreadsheet, the file and its backups
    records_arg,      \* the records sync_data was given last
    tried,            \* its log: a turn of the loop for each provider it went to
    returned,         \* what it returned: "True", "False", or "raised"
    managerCount,     \* ProviderManager.sync_data calls done so far
    contacts_data,    \* main's list of contacts
    chats_data,       \* main's list of user chats
    merged_data_list, \* what merge_contacts_and_chats returned
    export_pc,        \* the step of main that comes next
    now               \* the clock, in seconds

mergeVars == <<existing_record, new_record, merged_record, raised, mergeCount>>
syncVars == <<existing_data, new_data, merged_data, syncCount>>
storeVars ==
    <<sheet, titles, handler, calls, outcome, deleted_count, keep_arg,
      titles_before, started, sheet_before, row_arg, passCount>>
collectVars == <<routine, pc, attempts, seconds, error, callCount>>
managerVars == <<providers, stores, records_arg, tried, returned, managerCount>>
exportVars == <<contacts_data, chats_data, merged_data_list, export_pc>>
vars == <<mergeVars, syncVars, storeVars, collectVars, managerVars, exportVars, now>>

\* the state of a part of the program that a specification leaves out
MergeIdle ==
    /\ existing_record = <<>>
    /\ new_record = <<>>
    /\ merged_record = <<>>
    /\ raised = FALSE
    /\ mergeCount = 0

SyncIdle ==
    /\ existing_data = <<>>
    /\ new_data = <<>>
    /\ merged_data = <<>>
    /\ syncCount = 0

StoreIdle ==
    /\ sheet = <<>>
    /\ titles = <<>>
    /\ handler = "none"
    /\ calls = <<>>
    /\ outcome = "none"
    /\ deleted_count = 0
    /\ keep_arg = 0
    /\ titles_before = <<>>
    /\ started = 0
    /\ sheet_before = <<>>
    /\ row_arg = 0
    /\ passCount = 0

CollectIdle ==
    /\ routine = "none"
    /\ pc = "idle"
    /\ attempts = 0
    /\ seconds = 0
    /\ error = "none"
    /\ callCount = 0

ManagerIdle ==
    /\ providers = <<>>
    /\ stores = <<>>
    /\ records_arg = <<>>
    /\ tried = <<>>
    /\ returned = "none"
    /\ managerCount = 0

ExportIdle ==
    /\ contacts_data = <<>>
    /\ chats_data = <<>>
    /\ merged_data_list = <<>>
    /\ export_pc = "none"

\* ------------------------------------------------ merging one stored record
MergeInit ==
    /\ existing_record \in ExistingRecords
    /\ merged_record = existing_record
    /\ new_record = <<>>
    /\ raised = FALSE
    /\ mergeCount = 0
    /\ SyncIdle
    /\ StoreIdle
    /\ CollectIdle
    /\ ManagerIdle
    /\ ExportIdle
    /\ now = 0

\* preserve_additional_columns(stored record, new): the stored record is the
\* result of the merge before, the first time the row as read
MergeRecord(new) ==
    /\ mergeCount < MaxMerges
    /\ existing_record' = merged_record
    /\ new_record' = new
    /\ IF IdUnknown(merged_record, new)
       THEN /\ raised' = TRUE
            /\ merged_record' = merged_record
       ELSE /\ raised' = FALSE
            /\ merged_record' = PreserveAdditionalColumns(merged_record, new, now)
    /\ mergeCount' = mergeCount + 1
    /\ UNCHANGED <<syncVars, storeVars, collectVars, managerVars, exportVars, now>>

Merge == \E new \in NewRecords : MergeRecord(new)

\* a second passes
Tick ==
    /\ now < MaxTime
    /\ now' = now + 1
    /\ UNCHANGED <<mergeVars, syncVars, storeVars, collectVars, managerVars, exportVars>>

MergeNext == Merge \/ Tick

SpecMerge == MergeInit /\ [][MergeNext]_vars

\* ------------------------------------------- reconciling a table and a batch
SyncInit ==
    /\ MergeIdle
    /\ existing_data \in ExistingTables
    /\ new_data \in {ToFrame(batch) : batch \in Batches}
    /\ merged_data = existing_data
    /\ syncCount = 0
    /\ StoreIdle
    /\ CollectIdle
    /\ ManagerIdle
    /\ ExportIdle
    /\ now = 0

\* sync_data(new_data) on the table the call before returned, the first time
\* on the stored table
Sync ==
    /\ syncCount < MaxSyncs
    /\ existing_data' = merged_data
    /\ merged_data' = SyncData(merged_data, new_data, now)
    /\ syncCount' = syncCount + 1
    /\ UNCHANGED <<mergeVars, storeVars, collectVars, managerVars, exportVars, new_data, now>>

SyncNext == Sync \/ Tick

SpecSync == SyncInit /\ [][SyncNext]_vars

\* ------------------------------------------------- handlers on the store
Init ==
    /\ MergeIdle
    /\ SyncIdle
    /\ CollectIdle
    /\ ManagerIdle
    /\ ExportIdle
    /\ sheet \in StoredSheets
    /\ titles \in Spreadsheets
    /\ handler = "none"
    /\ calls = <<>>
    /\ outcome = "none"
    /\ deleted_count = 0
    /\ keep_arg = 0
    /\ titles_before = titles
    /\ started = 0
    /\ sheet_before = sheet
    /\ row_arg = 0
    /\ passCount = 0
    /\ now = 0

\* the store and the history after a handler that ended as result
Ran(name, result) ==
    /\ sheet_before' = sheet
    /\ sheet' = result.sheet
    /\ titles' = result.titles
    /\ handler' = name
    /\ calls' = result.calls
    /\ outcome' = result.outcome
    /\ deleted_count' = IF "deleted" \in DOMAIN result THEN result.deleted ELSE 0
    /\ keep_arg' = IF "keep_count" \in DOMAIN result THEN result.keep_count ELSE 0
    /\ titles_before' = titles
    /\ started' = now
    /\ row_arg' = IF "row_index" \in DOMAIN result THEN result.row_index ELSE 0
    /\ passCount' = passCount + 1
    /\ UNCHANGED <<mergeVars, syncVars, collectVars, managerVars, exportVars>>

\* main: provider_manager.sync_data(merged_data); the write may start in the
\* minute after the read
ExportSync ==
    \E records \in ExportBatches, fault \in Faults, dt \in {0, 60} :
        /\ passCount < MaxPasses
        /\ now + dt <= 60 * MaxMinutes
        /\ Ran("sync_data",
               ProviderManagerSyncData(sheet, titles, records, now, dt, fault))
        /\ now' = now + dt

\* MessageLoader.update_row_status on a row
MessageLoaderUpdate ==
    \E row_index \in 0..MaxRowIndex, update \in StatusUpdates, fault \in LoaderFaults :
        /\ passCount < MaxPasses
        /\ Ran("update_row_status",
               UpdateRowStatus(sheet, titles, row_index, update, now, fault))
        /\ UNCHANGED now

\* CommonGroupsLoader.update_row_common_groups on a row
CommonGroupsLoaderUpdate ==
    \E row_index \in 0..MaxRowIndex, text \in CommonGroupsTexts, fault \in LoaderFaults :
        /\ passCount < MaxPasses
        /\ Ran("update_row_common_groups",
               UpdateRowCommonGroups(sheet, titles, row_index, text, now, fault))
        /\ UNCHANGED now

\* MessageLoader.process_single_row on a row get_pending_rows selected; its
\* last update may come a second after its first
ProcessRow ==
    \E row_index \in 0..MaxRowIndex, branch \in Branches, dt \in {0, 1},
       fault_first \in LoaderFaults, fault_last \in LoaderFaults :
        /\ passCount < MaxPasses
        /\ row_index < Len(sheet)
        /\ Pending(sheet[row_index + 1])
        /\ Ran("process_single_row",
               ProcessSingleRow(sheet, titles, row_index, branch, now, dt,
                                fault_first, fault_last))
        /\ now' = now + dt

\* GoogleSheetsProvider.create_backup_sheet(), called on its own: it returns
\* the backup's name, or None
CreateSnapshot ==
    \E fault \in BackupFaults :
        LET backup == CreateBackupSheet(titles, now, fault)
        IN  /\ passCount < MaxPasses
            /\ Ran("create_backup_sheet",
                   [sheet |-> sheet, titles |-> backup.titles, calls |-> backup.calls,
                    outcome |-> IF backup.calls[Len(backup.calls)].ok
                                THEN "name" ELSE "None"])
            /\ UNCHANGED now

\* GoogleSheetsProvider.cleanup_old_backups(keep_count), called on its own: it
\* returns a count
PruneSnapshots ==
    \E keep_count \in KeepCounts, fault \in BackupFaults :
        LET cleaned == CleanupOldBackups(titles, keep_count, fault)
        IN  /\ passCount < MaxPasses
            /\ Ran("cleanup_old_backups",
                   [sheet |-> sheet, titles |-> cleaned.titles, calls |-> cleaned.calls,
                    deleted |-> cleaned.deleted, keep_count |-> keep_count,
                    outcome |-> "count"])
            /\ UNCHANGED now

\* a minute passes
NextMinute ==
    /\ now + 60 <= 60 * MaxMinutes
    /\ now' = now + 60
    /\ UNCHANGED <<mergeVars, syncVars, storeVars, collectVars, managerVars, exportVars>>

Next ==
    \/ ExportSync
    \/ MessageLoaderUpdate
    \/ CommonGroupsLoaderUpdate
    \/ ProcessRow
    \/ CreateSnapshot
    \/ PruneSnapshots
    \/ NextMinute

Spec == Init /\ [][Next]_vars

\* ------------------------------------------- the manager and its providers
\* the stores found at the start
ManagerInit ==
    /\ MergeIdle
    /\ SyncIdle
    /\ StoreIdle
    /\ CollectIdle
    /\ ExportIdle
    /\ providers \in ProviderLists
    /\ stores \in [sheet : {<<>>, <<StoredContact>>}, titles : {<<SheetName>>},
                   file : CsvFiles, backups : {{}}]
    /\ records_arg = <<>>
    /\ tried = <<>>
    /\ returned = "none"
    /\ managerCount = 0
    /\ now = 0

\* main: provider_manager.sync_data(merged_data); a provider's write may
\* start a second after its read
ManagerSync ==
    \E given \in ExportBatches, fault \in ManagerFaults, dt \in {0, 1} :
        LET result == ManagerSyncData(providers, stores, given, now, dt, fault)
        IN  /\ managerCount < MaxManagerSyncs
            /\ now + Len(providers) * dt <= MaxTime + 1
            /\ stores' = result.stores
            /\ records_arg' = given
            /\ tried' = result.tried
            /\ returned' = result.outcome
            /\ managerCount' = managerCount + 1
            /\ now' = IF given = <<>> THEN now ELSE now + Len(providers) * dt
            /\ UNCHANGED <<mergeVars, syncVars, storeVars, collectVars, exportVars,
                           providers>>

ManagerNext == ManagerSync \/ Tick

SpecManager == ManagerInit /\ [][ManagerNext]_vars

\* ------------------------------------------- main's collection and merge
ExportInit ==
    /\ MergeIdle
    /\ SyncIdle
    /\ StoreIdle
    /\ CollectIdle
    /\ ManagerIdle
    /\ contacts_data = <<>>
    /\ chats_data = <<>>
    /\ merged_data_list = <<>>
    /\ export_pc = "collect_contacts"
    /\ now = 0

\* contacts_data = await collect_contacts()
RunCollectContacts ==
    \E users \in UserLists :
        /\ export_pc = "collect_contacts"
        /\ contacts_data' = CollectContacts(users)
        /\ export_pc' = "collect_chats"
        /\ UNCHANGED <<mergeVars, syncVars, storeVars, collectVars, managerVars,
                       chats_data, merged_data_list, now>>

\* chats_data = await collect_chats()
RunCollectChats ==
    \E dialogs \in DialogLists :
        /\ export_pc = "collect_chats"
        /\ chats_data' = CollectChats(dialogs)
        /\ export_pc' = "merge_contacts_and_chats"
        /\ UNCHANGED <<mergeVars, syncVars, storeVars, collectVars, managerVars,
                       contacts_data, merged_data_list, now>>

\* merged_data = merge_contacts_and_chats(contacts_data, chats_data)
RunMergeContactsAndChats ==
    LET result == MergeContactsAndChats(contacts_data, chats_data)
    IN  /\ export_pc = "merge_contacts_and_chats"
        /\ contacts_data' = result.contacts_data
        /\ chats_data' = result.chats_data
        /\ merged_data_list' = result.merged_list
        /\ export_pc' = "sync_data"
        /\ UNCHANGED <<mergeVars, syncVars, storeVars, collectVars, managerVars, now>>

ExportNext == RunCollectContacts \/ RunCollectChats \/ RunMergeContactsAndChats

SpecExport == ExportInit /\ [][ExportNext]_vars

\* ------------------------------------------- the collection routines
\* the routines that ask the messaging API about one chat or user
Routines ==
    {"check_chat_has_messages", "count_total_messages_in_chat",
     "load_messages_for_chat", "get_common_chats_with_user"}

\* the errors a routine's request for the messages, or the common chats, may
\* end in besides FloodWaitError, with the error text of the dict returned
RequestErrors(r) ==
    {"Access denied", "Exception"}
        \cup (IF r = "get_common_chats_with_user"
              THEN {"User privacy restricted"} ELSE {})

CollectInit ==
    /\ MergeIdle
    /\ SyncIdle
    /\ StoreIdle
    /\ CollectIdle
    /\ ManagerIdle
    /\ ExportIdle
    /\ now = 0

\* process_single_row awaits a routine
CallRoutine ==
    \E r \in Routines :
        /\ pc \in {"idle", "returned"}
        /\ callCount < MaxCalls
        /\ routine' = r
        /\ pc' = "get_entity"
        /\ attempts' = 1
        /\ seconds' = 0
        /\ error' = "none"
        /\ callCount' = callCount + 1
        /\ UNCHANGED <<mergeVars, syncVars, storeVars, managerVars, exportVars, now>>

\* entity = await client.get_entity(chat_id)
GetEntity ==
    /\ pc = "get_entity"
    /\ pc' = "request"
    /\ UNCHANGED <<mergeVars, syncVars, storeVars, managerVars, exportVars, now,
                   routine, attempts, seconds, error, callCount>>

\* get_entity raised: the routine returns "Could not access ..."
GetEntityFails ==
    /\ pc = "get_entity"
    /\ pc' = "returned"
    /\ error' = "Could not access"
    /\ UNCHANGED <<mergeVars, syncVars, storeVars, managerVars, exportVars, now,
                   routine, attempts, seconds, callCount>>

\* the messages, or the common chats, came: the routine returns its dict
\* with error None
RequestDone ==
    /\ pc = "request"
    /\ pc' = "returned"
    /\ error' = "None"
    /\ UNCHANGED <<mergeVars, syncVars, storeVars, managerVars, exportVars, now,
                   routine, attempts, seconds, callCount>>

\* the request raised an error other than FloodWaitError: the routine returns
\* its dict with the error
RequestFails ==
    \E e \in RequestErrors(routine) :
        /\ pc = "request"
        /\ pc' = "returned"
        /\ error' = e
        /\ UNCHANGED <<mergeVars, syncVars, storeVars, managerVars, exportVars, now,
                       routine, attempts, seconds, callCount>>

\* except FloodWaitError as e: the routine goes to sleep for e.seconds
FloodWait ==
    \E s \in 1..MaxFloodSeconds :
        /\ pc = "request"
        /\ attempts < MaxAttempts
        /\ pc' = "sleep"
        /\ seconds' = s
        /\ UNCHANGED <<mergeVars, syncVars, storeVars, managerVars, exportVars, now,
                       routine, attempts, error, callCount>>

\* await asyncio.sleep(e.seconds); return await self.<routine>(chat_id)
RetryAfterSleep ==
    /\ pc = "sleep"
    /\ now' = now + seconds
    /\ attempts' = attempts + 1
    /\ pc' = "get_entity"
    /\ UNCHANGED <<mergeVars, syncVars, storeVars, managerVars, exportVars,
                   routine, seconds, error, callCount>>

CollectNext ==
    \/ CallRoutine
    \/ GetEntity
    \/ GetEntityFails
    \/ RequestDone
    \/ RequestFails
    \/ FloodWait
    \/ RetryAfterSleep

SpecCollect == CollectInit /\ [][CollectNext]_vars

\* ============================================================ the merge
\* the fields of a record that carry data: all but id and last_updated
DataFields(record) == (DOMAIN record) \ {"id", "last_updated"}

\* two values that are written to the store as the same text
SameCell(a, b) == CellText(a) = CellText(b)

\* a merge has been done and returned a record
Merged == mergeCount > 0 /\ ~raised

\* C2: a record whose stored is_contact (has_chat) is "Yes" still holds "Yes"
\* after every merge of a sequence, whatever the new record carries.
C2_FlagsMonotonic ==
    mergeCount > 0 =>
        \A f \in {"is_contact", "has_chat"} :
            Get(existing_record, f) = Yes => Get(merged_record, f) = Yes

\* a second merge in a row met a stored "Yes" with a new "No" and kept "Yes"
C2_Witness ==
    /\ mergeCount = 2
    /\ ~raised
    /\ \E f \in {"is_contact", "has_chat"} :
           /\ Get(existing_record, f) = Yes
           /\ Get(new_record, f) = No
           /\ Get(merged_record, f) = Yes

\* C3: when every field of the merged record other than last_updated equals
\* the existing record's value, the merged last_updated is the existing one.
C3_LastUpdatedGated ==
    (/\ Merged
     /\ DataFields(merged_record) = DataFields(existing_record)
     /\ \A f \in DataFields(merged_record) :
            SameCell(merged_record[f], existing_record[f]))
        => Get(merged_record, "last_updated") = Get(existing_record, "last_updated")

\* the standard fields the no-blank-overwrite rule names
PreferNewFields ==
    {"phone", "first_name", "last_name", "username", "title", "is_bot",
     "unread_count", "last_message_date"}

\* C6: an empty new value of a standard field keeps the existing non-empty
\* value, and a non-empty new value becomes the merged value.
C6_NoBlankOverwrite ==
    Merged =>
        \A f \in PreferNewFields \cap DOMAIN new_record :
            /\ (new_record[f] = Empty /\ Get(existing_record, f) # Empty)
                   => merged_record[f] = existing_record[f]
            /\ ~SameCell(new_record[f], Empty)
                   => SameCell(merged_record[f], new_record[f])

\* C7: an additional field with a non-empty existing value keeps it through
\* every merge with a new record that omits the field or gives it empty.
C7_ExtensionPreserved ==
    Merged =>
        \A f \in (DOMAIN existing_record) \ StandardColumns :
            (/\ existing_record[f] # Empty
             /\ f \in DOMAIN new_record => new_record[f] = Empty)
                => (f \in DOMAIN merged_record /\ merged_record[f] = existing_record[f])

\* after two merges in a row an additional field still holds its value, the
\* last new record giving it empty or not at all
C7_Witness ==
    /\ mergeCount = 2
    /\ ~raised
    /\ \E f \in (DOMAIN existing_record) \ StandardColumns :
           /\ existing_record[f] # Empty
           /\ f \in DOMAIN new_record => new_record[f] = Empty
           /\ merged_record[f] = existing_record[f]
    /\ \E f \in (DOMAIN existing_record) \ StandardColumns :
           existing_record[f] # Empty /\ f \notin DOMAIN new_record

\* the two records read the same in every comparable field (a missing field
\* reads as the empty string)
IdenticalComparable(existing, new) ==
    \A f \in DataFields(existing) \cup DataFields(new) :
        PyStr(Get(existing, f)) = PyStr(Get(new, f))

\* C8: merging a new record identical to the existing one in every comparable
\* field leaves last_updated as it was.
C8_ChangeGating ==
    (Merged /\ IdenticalComparable(existing_record, new_record))
        => Get(merged_record, "last_updated") = Get(existing_record, "last_updated")

\* an identical record was merged at a later second than the stored stamp
C8_Witness ==
    /\ Merged
    /\ IdenticalComparable(existing_record, new_record)
    /\ \E f \in DataFields(new_record) : new_record[f] # Empty
    /\ "last_updated" \in DOMAIN existing_record
    /\ existing_record["last_updated"] # Stamp(now)
    /\ merged_record["last_updated"] = existing_record["last_updated"]

\* =================================================== the table reconciler
\* the ids of a table, as text
Ids(data) == {CellText(data[i]["id"]) : i \in DOMAIN data}

\* two tables with the same rows in the same order, cell for cell
SameTable(a, b) ==
    /\ Len(a) = Len(b)
    /\ \A i \in DOMAIN a :
           /\ DOMAIN a[i] = DOMAIN b[i]
           /\ \A k \in DOMAIN a[i] : SameCell(a[i][k], b[i][k])

\* no id occurs in two rows
UniqueIds(data) ==
    \A i, j \in DOMAIN data : SameCell(data[i]["id"], data[j]["id"]) => i = j

\* C1: reconciling the same batch a second time, into the result of the
\* first, returns that result field for field, last_updated included (stated
\* here for the batches that hold no id twice).
C1_Idempotent ==
    (syncCount = 2 /\ UniqueIds(new_data)) => SameTable(merged_data, existing_data)

\* C4: the table sync_data returns holds every id of the table and of the
\* batch in exactly one record, and no record with an empty id.
C4_KeyInvariant ==
    syncCount > 0 =>
        /\ Ids(merged_data) = Ids(existing_data) \cup Ids(new_data)
        /\ UniqueIds(merged_data)
        /\ <<>> \notin Ids(merged_data)

\* ================================================ the handlers on the store
\* the log holds a failed request op
Failed(op) == \E i \in DOMAIN calls : calls[i].op = op /\ ~calls[i].ok

\* C5: after a reconciliation pass the store holds every id it held before.
C5_NeverDeletes ==
    handler = "sync_data" => Ids(sheet_before) \subseteq Ids(sheet)

\* C9: a pass whose read of a store that holds rows failed ends in an error,
\* and has not written the batch back over the store.
C9_ReadFailureSurfaces ==
    (handler = "sync_data" /\ Failed("values.get") /\ sheet_before # <<>>)
        => (outcome = "raised" /\ sheet = sheet_before)

\* the original C10: whichever handler clears the sheet, the entry of the log
\* just before the clearing is a create_backup_sheet that returned a name.
C10_SnapshotBeforeEveryWrite ==
    \A i \in DOMAIN calls :
        calls[i].op = "values.clear"
            => (i > 1 /\ calls[i - 1] = [op |-> "create_backup_sheet", ok |-> TRUE])

\* C10: a clearing of the sheet by ProviderManager.sync_data, which leaves
\* create_backup to the configuration, comes just after a return of
\* create_backup_sheet, with a name or without; the loaders' row updates
\* pass create_backup=False and clear the sheet with no create_backup_sheet.
C10_SnapshotUnlessOverridden ==
    /\ handler = "sync_data" =>
           \A i \in DOMAIN calls :
               calls[i].op = "values.clear"
                   => (i > 1 /\ calls[i - 1].op = "create_backup_sheet")
    /\ handler \in {"update_row_status", "update_row_common_groups"} =>
           \A i \in DOMAIN calls : calls[i].op # "create_backup_sheet"

\* a pass has cleared and rewritten the sheet just after create_backup_sheet
\* returned the name of a snapshot
C10_Witness ==
    /\ handler = "sync_data"
    /\ outcome = "True"
    /\ \E i \in DOMAIN calls :
           /\ calls[i].op = "values.clear"
           /\ i > 1
           /\ calls[i - 1] = [op |-> "create_backup_sheet", ok |-> TRUE]

\* ============================================================ the backups
\* the titles of a spreadsheet's sheets
Titles(sheets) == {sheets[i] : i \in DOMAIN sheets}

\* C11: create_backup_sheet names the backup after the sheet and the minute;
\* when the spreadsheet holds a sheet of that name it sends no request but the
\* one that lists the sheets, so it copies nothing and prunes nothing, leaves
\* the spreadsheet as it is and returns the name; and the spreadsheet never
\* holds two sheets of one title, so never two backups of one minute.
C11_DuplicateSuppressed ==
    /\ \A i, j \in DOMAIN titles : titles[i] = titles[j] => i = j
    /\ (/\ handler = "create_backup_sheet"
        /\ BackupName(started) \in Titles(titles_before)
        /\ ~Failed("get"))
           => /\ outcome = "name"
              /\ titles = titles_before
              /\ calls = Call("get", TRUE) \o Call("create_backup_sheet", TRUE)
    /\ (handler = "create_backup_sheet" /\ outcome = "name")
           => BackupName(started) \in Titles(titles)

\* create_backup_sheet found this minute's backup and left it alone
C11_Witness ==
    /\ handler = "create_backup_sheet"
    /\ BackupName(started) \in Titles(titles_before)
    /\ outcome = "name"
    /\ titles = titles_before

\* the sheets of a spreadsheet that are backups of the sheet: named with the
\* prefix and a suffix that parses as a timestamp
Backups(sheets) == {x \in Titles(sheets) : BackupTime(x) # NoTime}

\* the number of backups of the sheet that are newer than backup x
Newer(sheets, x) ==
    Cardinality({y \in Backups(sheets) : BackupTime(y) > BackupTime(x)})

\* C12: cleanup_old_backups(keep_count) returns the number of sheets it
\* deleted; when its requests succeed it deletes the backups of the sheet that
\* are not among the keep_count newest and no other sheet, so a sheet whose
\* suffix does not parse and a sheet of another source stay, and the sheets
\* that stay keep their order.
C12_PruneRetention ==
    handler = "cleanup_old_backups"
        => /\ deleted_count = Len(titles_before) - Len(titles)
           /\ titles = SelectSeq(titles_before, LAMBDA x : x \in Titles(titles))
           /\ \A x \in Titles(titles_before) \ Backups(titles_before) :
                  x \in Titles(titles)
           /\ (~Failed("get") /\ ~Failed("deleteSheet"))
                  => \A x \in Backups(titles_before) :
                         x \in Titles(titles) <=> Newer(titles_before, x) < keep_arg

\* a prune that deleted two backups and kept others, with sheets around that
\* are no backups of the sheet
C12_Witness ==
    /\ handler = "cleanup_old_backups"
    /\ deleted_count = 2
    /\ keep_arg = 2
    /\ {ManualBackup, BadDateBackup, OtherBackup} \subseteq Titles(titles)
    /\ {OldBackup(59), OldBackup(58)} \subseteq Titles(titles)
    /\ Titles(titles_before) \ Titles(titles) = {OldBackup(57), OldBackup(56)}

\* C13: when the request that deletes the sheets fails, cleanup_old_backups
\* does not return a count: the error reaches its caller.
C13_DeleteFailureSurfaces ==
    (handler = "cleanup_old_backups" /\ Failed("deleteSheet")) => outcome = "raised"

\* the entry of the log for a create_backup_sheet that returned None
NoBackup == [op |-> "create_backup_sheet", ok |-> FALSE]

\* position i of the log lies in write_data: sync_data has read the sheet
InWriteData(i) == \E j \in 1..(i - 1) : calls[j].op = "values.get"

\* C14: when the create_backup_sheet of write_data returns None, write_data
\* goes on to clear the sheet; and when the clear and the update succeed it
\* has written the table and the pass returns True.
C14_WriteDespiteNoBackup ==
    handler = "sync_data"
        => \A i \in DOMAIN calls :
               (calls[i] = NoBackup /\ InWriteData(i))
                   => /\ i < Len(calls)
                      /\ calls[i + 1].op = "values.clear"
                      /\ (~Failed("values.clear") /\ ~Failed("values.update"))
                             => /\ calls[Len(calls)] = [op |-> "values.update", ok |-> TRUE]
                                /\ outcome = "True"
                                /\ sheet # <<>>

\* a pass that could take no backup, wrote the sheet and returned True
C14_Witness ==
    /\ handler = "sync_data"
    /\ outcome = "True"
    /\ \E i \in DOMAIN calls :
           /\ calls[i] = NoBackup
           /\ InWriteData(i)
           /\ calls[i + 1] = [op |-> "values.clear", ok |-> TRUE]
    /\ sheet # sheet_before

\* ================================================= the merge, once more
\* C15: _has_data_changed, and so preserve_additional_columns, called with an
\* existing and a new record that both hold no id raises an error and returns
\* no record.  (sync_data hands preserve_additional_columns rows of two
\* DataFrames whose id column it has just converted, so each holds an id.)
C15_MissingIdFailsFast ==
    (/\ mergeCount > 0
     /\ "id" \notin DOMAIN existing_record
     /\ "id" \notin DOMAIN new_record)
        => raised /\ merged_record = existing_record

\* a merge of two records without id that ended in the error
C15_Witness ==
    /\ mergeCount > 0
    /\ "id" \notin DOMAIN existing_record
    /\ "id" \notin DOMAIN new_record
    /\ raised

\* the phones of the two records hold the same digits, and some, and differ
\* in the characters that are no digits
PhoneDiffersInNonDigits(existing, new) ==
    /\ Cell(existing, "phone") # Cell(new, "phone")
    /\ OnlyDigits(Cell(existing, "phone")) = OnlyDigits(Cell(new, "phone"))
    /\ OnlyDigits(Cell(new, "phone")) # <<>>

\* the two records read the same in every comparable field but field
IdenticalBut(existing, new, field) ==
    \A f \in (DataFields(existing) \cup DataFields(new)) \ {field} :
        PyStr(Get(existing, f)) = PyStr(Get(new, f))

HourZeroDropped(a, b) ==
    /\ Len(a) = 19
    /\ \A k \in {1, 2, 3, 4, 6, 7, 9, 10, 12, 13, 15, 16, 18, 19} : IsDigit(a[k])
    /\ a[5] = "-" /\ a[8] = "-" /\ a[11] = " " /\ a[14] = ":" /\ a[17] = ":"
    /\ a[12] = "0"
    /\ b = SubSeq(a, 1, 11) \o SubSeq(a, 13, 19)

\* the last_message_date of the two records differs by the leading zero of
\* the hour alone, whichever of the two holds it
DateDiffersInHourZero(existing, new) ==
    LET old == Cell(existing, "last_message_date")
        new_date == Cell(new, "last_message_date")
    IN  HourZeroDropped(old, new_date) \/ HourZeroDropped(new_date, old)

\* C17: when the existing and the new last_message_date differ only by the
\* leading zero of the hour, in either direction, the detector reports no
\* change: last_updated stays as it was when the records differ in nothing
\* else.
C17_DateTolerance ==
    (/\ Merged
     /\ DateDiffersInHourZero(existing_record, new_record)
     /\ IdenticalBut(existing_record, new_record, "last_message_date"))
        => Get(merged_record, "last_updated") = Get(existing_record, "last_updated")

\* a stored "09:15:00" met a new "9:15:00" a second after the stored stamp,
\* and the stamp stayed
C17_Witness ==
    /\ Merged
    /\ existing_record["last_message_date"] = Date09
    /\ new_record["last_message_date"] = Date9
    /\ IdenticalBut(existing_record, new_record, "last_message_date")
    /\ "last_updated" \in DOMAIN existing_record
    /\ existing_record["last_updated"] # Stamp(now)
    /\ merged_record["last_updated"] = existing_record["last_updated"]

\* ======================================== the table reconciler, once more
\* C18: sync_data on an empty existing table returns the new records as they
\* were given, row for row and value for value, with last_updated set to the
\* time of the call on each.
C18_EmptyTablePath ==
    [][(syncCount' = syncCount + 1 /\ merged_data = <<>>)
          => /\ Len(merged_data') = Len(new_data)
             /\ \A i \in DOMAIN new_data :
                    /\ DOMAIN merged_data'[i] = (DOMAIN new_data[i]) \cup {"last_updated"}
                    /\ merged_data'[i]["last_updated"] = Stamp(now)
                    /\ \A k \in (DOMAIN new_data[i]) \ {"last_updated"} :
                           merged_data'[i][k] = new_data[i][k]]_vars

\* the empty table took a batch of two records of one id as it was, a second
\* after the start
C18_Witness ==
    /\ syncCount = 1
    /\ existing_data = <<>>
    /\ Len(merged_data) = 2
    /\ merged_data[1]["id"] = IntV(1)
    /\ merged_data[2]["id"] = IntV(1)
    /\ merged_data[1]["first_name"] # merged_data[2]["first_name"]
    /\ merged_data[1]["last_updated"] = Stamp(1)

\* C19: when two records of a batch hold one id and give one of the standard
\* fields two different non-empty values, every row of that id in the table
\* sync_data returns holds the value of the later record.
C19_LaterRecordWins ==
    (/\ syncCount > 0
     /\ Len(new_data) = 2
     /\ SameCell(new_data[1]["id"], new_data[2]["id"]))
        => \A f \in PreferNewFields :
               (/\ CellText(new_data[1][f]) # <<>>
                /\ CellText(new_data[2][f]) # <<>>
                /\ ~SameCell(new_data[1][f], new_data[2][f]))
                   => \A i \in DOMAIN merged_data :
                          SameCell(merged_data[i]["id"], new_data[2]["id"])
                              => SameCell(merged_data[i][f], new_data[2][f])

\* ============================================== the collection routines
\* C20: after a FloodWaitError a collection routine waits and tries once
\* more and no further: it enters its body at most twice for one call.
C20_RetryOnce == attempts <= 2

\* ===================================================== who writes the rows
\* a stored row reads differently after a step: a cell it held shows another
\* text, or it holds a cell it did not hold
RowChanged(before, after) ==
    \E k \in DOMAIN after :
        k \notin DOMAIN before \/ ~SameCell(after[k], before[k])

\* C21: a stored record is mutated only by the Record Merger: every step in
\* which a row of the sheet keeps its id and changes in a field is a
\* reconciliation pass (sync_data, whose rows come out of
\* preserve_additional_columns), never a row update of a loader.
C21_OnlyMergerMutates ==
    [][\A i \in (DOMAIN sheet) \cap (DOMAIN sheet') :
          (SameCell(sheet'[i]["id"], sheet[i]["id"]) /\ RowChanged(sheet[i], sheet'[i]))
              => handler' = "sync_data"]_vars

\* ================================================ the detector and the merge
\* the value a merge persisted for a field reads differently from the existing
\* one, two dates that differ in the hour's leading zero reading the same
PersistedDiffers(field) ==
    IF /\ field = "last_message_date"
       /\ Cell(existing_record, field) # <<>>
       /\ Cell(merged_record, field) # <<>>
    THEN NormalizeDate(Cell(existing_record, field))
             # NormalizeDate(Cell(merged_record, field))
    ELSE Cell(existing_record, field) # Cell(merged_record, field)

\* C22: for unread_count and last_message_date the detector reports a change
\* of the field exactly when the value the merge persists for it differs from
\* the existing value, whatever new value the collectors supply, the int 0 of
\* a record with no unread messages included.
C22_DetectorMirrorsMerge ==
    Merged =>
        \A f \in {"unread_count", "last_message_date"} :
            StandardFieldChanged(f, existing_record, new_record) <=> PersistedDiffers(f)

\* the stored record is no contact, the new one is, and they read the same in
\* every other field
ContactFlipOnly(existing, new) ==
    /\ Get(existing, "is_contact") = No
    /\ Get(new, "is_contact") = Yes
    /\ IdenticalBut(existing, new, "is_contact")

\* C23: is_contact is left out of change detection: a merge in which the
\* records differ in is_contact alone, "No" stored and "Yes" new, makes the
\* merged is_contact "Yes" and leaves last_updated as it was.
C23_ContactFlipUnstamped ==
    (Merged /\ ContactFlipOnly(existing_record, new_record))
        => /\ merged_record["is_contact"] = Yes
           /\ Get(merged_record, "last_updated") = Get(existing_record, "last_updated")

\* a second after the stored stamp a merge turned is_contact to "Yes" and
\* left the stamp alone
C23_Witness ==
    /\ Merged
    /\ ContactFlipOnly(existing_record, new_record)
    /\ merged_record["is_contact"] = Yes
    /\ "last_updated" \in DOMAIN existing_record
    /\ existing_record["last_updated"] # Stamp(now)
    /\ merged_record["last_updated"] = existing_record["last_updated"]

\* ================================================ the stamp of a merged row
\* the rows of a table that hold the id of record
RowsOfId(data, record) ==
    {i \in DOMAIN data : SameCell(data[i]["id"], record["id"])}

\* C24: sync_data gives the row of an id that the table held and the batch
\* brings (once) the stamp of the call when _has_data_changed(existing, new)
\* is true, and the existing row's last_updated when it is false, whatever
\* last_updated the new record carries.
C24_StampFollowsDetector ==
    [][(syncCount' = syncCount + 1 /\ merged_data # <<>>)
          => \A i \in DOMAIN new_data :
                 \A j \in RowsOfId(merged_data, new_data[i]) :
                     RowsOfId(new_data, new_data[i]) = {i}
                         => \A k \in RowsOfId(merged_data', new_data[i]) :
                                merged_data'[k]["last_updated"]
                                    = IF HasDataChanged(IdAsStr(merged_data)[j],
                                                        IdAsStr(new_data)[i])
                                      THEN Stamp(now)
                                      ELSE merged_data[j]["last_updated"]]_vars

\* a second after the stored stamp, sync_data met a new record that reads as
\* the stored one and carries a last_updated of its own, and the row kept the
\* stored stamp
C24_Witness ==
    /\ syncCount = 1
    /\ now = 1
    /\ Len(existing_data) > 0
    /\ SameCell(existing_data[1]["id"], new_data[1]["id"])
    /\ RowsOfId(new_data, new_data[1]) = {1}
    /\ "last_updated" \in DOMAIN new_data[1]
    /\ new_data[1]["last_updated"] = Stamp(59)
    /\ ~HasDataChanged(IdAsStr(existing_data)[1], IdAsStr(new_data)[1])
    /\ existing_data[1]["last_updated"] = Stamp(0)
    /\ merged_data[1]["last_updated"] = Stamp(0)

\* ================================================= the rows a batch passes by
\* C25: sync_data on a table that is not empty returns every existing row
\* whose id the batch does not hold with every field, last_updated included,
\* as it was.
C25_ReconcileFrame ==
    [][(syncCount' = syncCount + 1 /\ merged_data # <<>>)
          => \A j \in DOMAIN merged_data :
                 RowsOfId(new_data, merged_data[j]) = {}
                     => \E k \in DOMAIN merged_data' :
                            \A f \in DOMAIN merged_data[j] :
                                /\ f \in DOMAIN merged_data'[k]
                                /\ merged_data'[k][f] = merged_data[j][f]]_vars

\* a second after the stored stamp, sync_data merged a batch that changes the
\* row of one id into a table of two rows, and the row of the other id came
\* back as it was
C25_Witness ==
    /\ syncCount = 1
    /\ now = 1
    /\ Len(existing_data) = 2
    /\ RowsOfId(new_data, existing_data[2]) = {}
    /\ RowsOfId(new_data, existing_data[1]) # {}
    /\ merged_data[1]["last_updated"] = Stamp(1)
    /\ \A f \in DOMAIN existing_data[2] : merged_data[2][f] = existing_data[2][f]

\* ==================================================== values and the stamp
\* a merge of a new record into a stored record of its id returns, the stored
\* stamp being of an earlier second
MergesLater ==
    /\ mergeCount' = mergeCount + 1
    /\ ~raised'
    /\ "id" \in DOMAIN merged_record
    /\ "last_updated" \in DOMAIN merged_record
    /\ merged_record["last_updated"] # Stamp(now)

C27_FailedWriteKeepsTable ==
    (Failed("values.clear") \/ Failed("values.update")) => sheet = sheet_before

\* ================================================== the status of a row
\* C28: when process_single_row has returned, True or False, no row of the
\* sheet is left with the processing_status 'in_progress', which
\* get_pending_rows never selects again.
C28_NoRowLeftInProgress ==
    handler = "process_single_row" =>
        \A i \in DOMAIN sheet : Get(sheet[i], "processing_status") # InProgress

\* the ids of the records given are among the rows' ids
HoldsGiven(rows) ==
    \A i \in DOMAIN records_arg :
        \E j \in DOMAIN rows : rows[j]["id"].s = PyStr(records_arg[i]["id"])

\* the store of a provider
StoreOf(provider) ==
    IF provider = "csv" THEN stores.file.rows ELSE stores.sheet

\* C29: after ProviderManager.sync_data on a list of records that is not
\* empty, the log has a turn for every provider configured, in their order,
\* whatever the turns before ended in; in a turn write_data was called when
\* sync_data returned, and a store whose write returned True holds the
\* records given; the call raised if no write returned True, returned True
\* if all did, and False otherwise
C29_EveryProviderTried ==
    (managerCount > 0 /\ records_arg # <<>>) =>
        /\ Len(tried) = Len(providers)
        /\ \A i \in DOMAIN tried :
              /\ tried[i].provider = providers[i]
              /\ tried[i].synced <=> tried[i].wrote \in {"True", "False"}
              /\ tried[i].wrote = "True" => HoldsGiven(StoreOf(providers[i]))
        /\ returned = IF SuccessCount(tried) = 0 THEN "raised"
                      ELSE IF SuccessCount(tried) = Len(providers) THEN "True"
                      ELSE "False"

\* the first of two providers failed, the second wrote, and the call
\* returned False
C29_Witness ==
    /\ managerCount > 0
    /\ records_arg # <<>>
    /\ Len(providers) = 2
    /\ Len(tried) = 2
    /\ tried[1].wrote # "True"
    /\ tried[2].wrote = "True"
    /\ returned = "False"

\* ================================================ the merge of the two lists
\* the ids of a list of records, as the keys str(record['id'])
IdsOf(list) == {PyStr(list[i]["id"]) : i \in DOMAIN list}

\* C30: merge_contacts_and_chats, given the contacts collect_contacts built
\* and the chats collect_chats built, returns a list with exactly one record
\* for each id of a contact or a chat and for no other id, in which
\* is_contact is 'Yes' just for the ids of contacts and has_chat is 'Yes'
\* just for the ids of chats, and the call leaves the dicts of both lists as
\* they were.
C30_MergeOnePerId ==
    /\ [](export_pc = "sync_data" =>
            /\ \A key \in IdsOf(contacts_data) \cup IdsOf(chats_data) :
                  Cardinality({i \in DOMAIN merged_data_list :
                                  PyStr(merged_data_list[i]["id"]) = key}) = 1
            /\ \A i \in DOMAIN merged_data_list :
                  /\ PyStr(merged_data_list[i]["id"])
                         \in IdsOf(contacts_data) \cup IdsOf(chats_data)
                  /\ merged_data_list[i]["is_contact"] = Yes
                         <=> PyStr(merged_data_list[i]["id"]) \in IdsOf(contacts_data)
                  /\ merged_data_list[i]["has_chat"] = Yes
                         <=> PyStr(merged_data_list[i]["id"]) \in IdsOf(chats_data))
    /\ [][export_pc = "merge_contacts_and_chats" =>
              /\ contacts_data' = contacts_data
              /\ chats_data' = chats_data]_vars

\* the merge has run on a contact without names who has a chat that names
\* the user, and on a chat of a user who is no contact
C30_Witness ==
    /\ export_pc = "sync_data"
    /\ \E i \in DOMAIN contacts_data, j \in DOMAIN chats_data, k \in DOMAIN merged_data_list :
          /\ contacts_data[i]["id"] = chats_data[j]["id"]
          /\ merged_data_list[k]["id"] = contacts_data[i]["id"]
          /\ contacts_data[i]["first_name"] = Empty
          /\ merged_data_list[k]["first_name"] = chats_data[j]["first_name"]
          /\ merged_data_list[k]["first_name"] # Empty
    /\ \E j \in DOMAIN chats_data :
          PyStr(chats_data[j]["id"]) \notin IdsOf(contacts_data)

====
